---- MODULE Spec2Model ----
(***************************************************************************)
(* The two-stage bulk-load benchmark of aurora-limitless-benchmark:        *)
(* runTwoStageBenchmark (the coordinator, on the main thread) and the      *)
(* generation and copy worker threads it starts through runFileGeneration  *)
(* and runCopyExecution.                                                   *)
(*                                                                         *)
(* A generation unit is numbered u in 1..N in spawn order, N = minWorkers  *)
(* x connectionsPerWorker; its artifact path                               *)
(* temp_csv_files/worker_<w>_conn_<c>_<t>.csv is represented by u, and the *)
(* empty path "" by NoPath.  Sizes are carried in KB so that they stay     *)
(* integral.  The source caps the stage-2 batch size at 10; the model      *)
(* scales that ceiling to CopyCeiling so that several batches occur with   *)
(* a handful of units.                                                     *)
(***************************************************************************)
EXTENDS Integers, Sequences, FiniteSets, TLC

\* ---------------------------------------------------------------- bounds
MaxWorkers == 2
MaxConnectionsPerWorker == 2
MaxUnits == 4
MaxDataSizeMB == 1
\* the ceiling of Math.min(10, successfulGenerations.length), scaled down
CopyCeiling == 2
\* the limit of errors.slice(0, 10), scaled down
ErrorsLimit == 2

\* ------------------------------------------------------ program constants
BytesPerKB == 1024
AvgRecordKB == 75

VARIABLES
  config,        \* BenchmarkConfig: minWorkers, connectionsPerWorker, dataSizeMB
  pc,            \* position of runTwoStageBenchmark
  genUnit,       \* per generation unit: state of its worker thread / promise
  genResult,     \* per generation unit: the FileGenerationResult it posted
  disk,          \* per artifact path: "none", "partial" or "complete"
  created,       \* paths on which createCsvFile has succeeded
  copies,        \* every copy worker unit started by runCopyExecution, in start order
  loopI,         \* the batch loop's index i
  copyResults,   \* the coordinator's copyResults array
  result,        \* the BenchmarkResult under construction / returned
  cleanupArg,    \* the path list handed to cleanupFiles
  unlinkFailed,  \* paths whose deletion failed inside cleanupFiles
  clock,         \* Date.now() and the timestamps runTwoStageBenchmark takes, in ms
  exec,          \* per executeCopyCommand call: its position and its connection use
  mainPc,        \* position of main
  latencies,     \* the latencies of a benchmark worker's measurements, in push order
  workerStats,   \* the statistics the benchmark worker computes from them
  locals         \* the local variables of a function followed on its own

\* what the coordinator and its worker threads leave alone
otherVars == << exec, mainPc, latencies, workerStats, locals >>

auxVars == << clock, otherVars >>

vars == << config, pc, genUnit, genResult, disk, created, copies, loopI,
           copyResults, result, cleanupArg, unlinkFailed, clock, exec, mainPc,
           latencies, workerStats, locals >>

\* ---------------------------------------------------------------- helpers
Min(a, b) == IF a <= b THEN a ELSE b

RECURSIVE SumSeq(_)
SumSeq(s) == IF s = << >> THEN 0 ELSE Head(s) + SumSeq(Tail(s))

TakeAll(s, n) == s

\* Array.prototype.slice(0, n)
Take(s, n) == SubSeq(s, 1, Min(n, Len(s)))

NoPath == 0

TotalConnections(cfg) == cfg.minWorkers * cfg.connectionsPerWorker

RecordsPerConnection(cfg) ==
  (cfg.dataSizeMB * BytesPerKB * BytesPerKB)
     \div (TotalConnections(cfg) * AvgRecordKB * BytesPerKB)

Units == 1 .. TotalConnections(config)

WorkerIdOfByWorkers(u) == (u - 1) \div config.minWorkers

\* the (workerId, connectionId) pair of the u-th spawned unit
WorkerIdOf(u) == (u - 1) \div config.connectionsPerWorker
ConnectionIdOf(u) == (u - 1) % config.connectionsPerWorker

\* the artifact path built by generateCsvFile for (workerId, connectionId)
FilePathOf(w, c) == w * config.connectionsPerWorker + c + 1

PathOfUnit(u) == FilePathOf(WorkerIdOf(u), ConnectionIdOf(u))

\* size of a finished artifact, in KB
FileSizeKB(records) == records * AvgRecordKB

\* ------------------------------------------------ generation worker thread
NoGenResult ==
  [workerId |-> 0, connectionId |-> 0, filePath |-> NoPath,
   recordsGenerated |-> 0, fileSizeMB |-> 0, success |-> FALSE, error |-> ""]

GenSuccessResult(u, recordCount) ==
  [workerId |-> WorkerIdOf(u), connectionId |-> ConnectionIdOf(u),
   filePath |-> PathOfUnit(u), recordsGenerated |-> recordCount,
   fileSizeMB |-> FileSizeKB(recordCount), success |-> TRUE, error |-> ""]

GenFailureResult(u, message) ==
  [workerId |-> WorkerIdOf(u), connectionId |-> ConnectionIdOf(u),
   filePath |-> PathOfUnit(u), recordsGenerated |-> 0,
   fileSizeMB |-> 0, success |-> FALSE, error |-> message]

\* createCsvFile succeeded: the directory exists, the stream is open and the
\* header row is written; the rows follow
GenOpen(u) ==
  /\ genUnit[u] = "spawned"
  /\ genUnit' = [genUnit EXCEPT ![u] = "writing"]
  /\ disk' = [disk EXCEPT ![PathOfUnit(u)] = "partial"]
  /\ created' = created \cup {PathOfUnit(u)}
  /\ UNCHANGED << config, pc, genResult, copies, loopI, copyResults, result,
                  cleanupArg, unlinkFailed >>
  /\ UNCHANGED auxVars

\* createCsvFile threw (mkdirSync failed): the catch block returns a failure
\* that still carries the path
GenOpenFail(u) ==
  /\ genUnit[u] = "spawned"
  /\ genUnit' = [genUnit EXCEPT ![u] = "resolved"]
  /\ genResult' = [genResult EXCEPT ![u] =
                     GenFailureResult(u, "EACCES: permission denied, mkdir")]
  /\ UNCHANGED << config, pc, disk, created, copies, loopI, copyResults,
                  result, cleanupArg, unlinkFailed >>
  /\ UNCHANGED auxVars

\* the write stream emitted finish: every row is flushed and the file closed
GenFinish(u) ==
  /\ genUnit[u] = "writing"
  /\ genUnit' = [genUnit EXCEPT ![u] = "resolved"]
  /\ disk' = [disk EXCEPT ![PathOfUnit(u)] = "complete"]
  /\ genResult' = [genResult EXCEPT ![u] =
                     GenSuccessResult(u, RecordsPerConnection(config))]
  /\ UNCHANGED << config, pc, created, copies, loopI, copyResults, result,
                  cleanupArg, unlinkFailed >>
  /\ UNCHANGED auxVars

\* the write stream emitted error: the file stays as far as it was written
GenStreamError(u) ==
  /\ genUnit[u] = "writing"
  /\ genUnit' = [genUnit EXCEPT ![u] = "resolved"]
  /\ genResult' = [genResult EXCEPT ![u] =
                     GenFailureResult(u, "ENOSPC: no space left on device, write")]
  /\ UNCHANGED << config, pc, disk, created, copies, loopI, copyResults,
                  result, cleanupArg, unlinkFailed >>
  /\ UNCHANGED auxVars

\* the worker thread emitted error or exited with a non-zero code before
\* posting: runFileGeneration's promise rejects
GenCrash(u) ==
  /\ genUnit[u] \in {"spawned", "writing"}
  /\ genUnit' = [genUnit EXCEPT ![u] = "rejected"]
  /\ UNCHANGED << config, pc, genResult, disk, created, copies, loopI,
                  copyResults, result, cleanupArg, unlinkFailed >>
  /\ UNCHANGED auxVars

\* ------------------------------------------------------ copy worker thread
NoCopyResult ==
  [workerId |-> 0, connectionId |-> 0, filePath |-> NoPath,
   recordsInserted |-> 0, dataSizeMB |-> 0, success |-> FALSE, error |-> ""]

\* stream.rowCount || 0 of a load that streamed the whole artifact
RowCount(path) == genResult[path].recordsGenerated

CopySuccessResult(c) ==
  [workerId |-> c.workerId, connectionId |-> c.connectionId,
   filePath |-> c.filePath, recordsInserted |-> RowCount(c.filePath),
   dataSizeMB |-> FileSizeKB(RowCount(c.filePath)), success |-> TRUE,
   error |-> ""]

CopyFailureResultKeepingCounts(c, message) ==
  [workerId |-> c.workerId, connectionId |-> c.connectionId,
   filePath |-> c.filePath, recordsInserted |-> RowCount(c.filePath),
   dataSizeMB |-> FileSizeKB(RowCount(c.filePath)), success |-> FALSE,
   error |-> message]

CopyFailureResult(c, message) ==
  [workerId |-> c.workerId, connectionId |-> c.connectionId,
   filePath |-> c.filePath, recordsInserted |-> 0,
   dataSizeMB |-> 0, success |-> FALSE, error |-> message]

\* executeCopyCommand streamed the artifact and the COPY finished
CopySucceed(j) ==
  /\ j \in DOMAIN copies
  /\ copies[j].status = "running"
  /\ disk[copies[j].filePath] = "complete"
  /\ copies' = [copies EXCEPT ![j].status = "resolved",
                              ![j].result = CopySuccessResult(copies[j])]
  /\ UNCHANGED << config, pc, genUnit, genResult, disk, created, loopI,
                  copyResults, result, cleanupArg, unlinkFailed >>
  /\ UNCHANGED auxVars

\* executeCopyCommand caught an error (stat, acquire, protocol, streaming)
CopyFail(j) ==
  /\ j \in DOMAIN copies
  /\ copies[j].status = "running"
  /\ copies' = [copies EXCEPT ![j].status = "resolved",
                              ![j].result =
                                 CopyFailureResult(copies[j], "COPY stream error")]
  /\ UNCHANGED << config, pc, genUnit, genResult, disk, created, loopI,
                  copyResults, result, cleanupArg, unlinkFailed >>
  /\ UNCHANGED auxVars

\* the worker thread emitted error or exited with a non-zero code before
\* posting: runCopyExecution's promise rejects
CopyCrash(j) ==
  /\ j \in DOMAIN copies
  /\ copies[j].status = "running"
  /\ copies' = [copies EXCEPT ![j].status = "rejected"]
  /\ UNCHANGED << config, pc, genUnit, genResult, disk, created, loopI,
                  copyResults, result, cleanupArg, unlinkFailed >>
  /\ UNCHANGED auxVars

\* --------------------------------------------------------- the coordinator
NoResult ==
  [totalConnections |-> 0, batchSize |-> 0, totalRecords |-> 0,
   totalDataSizeMB |-> 0, successCount |-> 0, errorCount |-> 0,
   successRate |-> << 0, 0 >>, errors |-> << >>, duration |-> 0,
   throughputMBps |-> << 0, 0 >>, throughputRecordsPerSecond |-> << 0, 0 >>]

\* the loop of lines 22-28: one runFileGeneration per (workerId, connectionId)
SpawnGenerators ==
  /\ pc = "Idle"
  /\ genUnit' = [u \in Units |-> "spawned"]
  /\ pc' = "AwaitingGeneration"
  /\ clock' = [clock EXCEPT !.overallStart = clock.now]
  /\ UNCHANGED << config, genResult, disk, created, copies, loopI,
                  copyResults, result, cleanupArg, unlinkFailed >>
  /\ UNCHANGED otherVars

generationResults == [u \in Units |-> genResult[u]]

successfulGenerationsUnfiltered == generationResults

\* line 33: generationResults.filter(r => r.success)
successfulGenerations == SelectSeq(generationResults, LAMBDA r : r.success)

failedGenerations == SelectSeq(generationResults, LAMBDA r : ~r.success)

maxConcurrentCopies == Min(CopyCeiling, Len(successfulGenerations))

\* a worker unit started by runCopyExecution(config, workerId, connectionId, filePath)
runCopyExecution(gen, how, i) ==
  [filePath |-> gen.filePath, workerId |-> gen.workerId,
   connectionId |-> gen.connectionId, origin |-> how, batchStart |-> i,
   status |-> "running", result |-> NoCopyResult]

\* lines 46-52: copyPromises, one runCopyExecution per successful generation
copyPromises ==
  [k \in 1 .. Len(successfulGenerations) |->
     runCopyExecution(successfulGenerations[k], "copyPromises", 0)]

batchFromTheStart(i) ==
  SubSeq(successfulGenerations, 1,
         Min(maxConcurrentCopies, Len(successfulGenerations)))

\* successfulGenerations.slice(i, i + maxConcurrentCopies)
batch(i) ==
  SubSeq(successfulGenerations, i + 1,
         Min(i + maxConcurrentCopies, Len(successfulGenerations)))

\* lines 61-64: the batch's runCopyExecution calls
batchPromises(i) ==
  [k \in 1 .. Len(batch(i)) |-> runCopyExecution(batch(i)[k], "batch", i)]

LoopNeverEntered(i) == FALSE

\* line 60: the condition of for (let i = 0; i < successfulGenerations.length; ...)
LoopContinues(i) == i < Len(successfulGenerations)

AllGenerationsSucceeded ==
  \A u \in Units : genUnit[u] = "resolved" /\ genResult[u].success

\* Promise.all(generationPromises) resolves: every promise has resolved
AllGenerationsSettledOrAnyOne ==
  \E u \in Units : genUnit[u] = "resolved"

AllGenerationsSettled ==
  \A u \in Units : genUnit[u] = "resolved"

NoSuccessfulGenerationNeverChecked == FALSE

\* line 39: successfulGenerations.length === 0
NoSuccessfulGeneration == Len(successfulGenerations) = 0

\* lines 30-67: the stage-1 barrier, the partition, the fatal check, and the
\* start of stage 2 up to the first batch's await
GenerationBarrier ==
  /\ pc = "AwaitingGeneration"
  /\ AllGenerationsSettled
  /\ IF NoSuccessfulGeneration
       THEN /\ pc' = "Failed"
            /\ UNCHANGED << copies, loopI, clock >>
       ELSE /\ loopI' = 0
            /\ clock' = [clock EXCEPT !.copyStart = clock.now]
            /\ IF LoopContinues(0)
                 THEN /\ copies' = copyPromises \o batchPromises(0)
                      /\ pc' = "AwaitingCopies"
                 ELSE /\ copies' = copyPromises
                      /\ pc' = "Aggregating"
  /\ UNCHANGED << config, genUnit, genResult, disk, created, copyResults,
                  result, cleanupArg, unlinkFailed >>
  /\ UNCHANGED otherVars

\* Promise.all(generationPromises) rejects as soon as one promise rejects
GenerationReject ==
  /\ pc = "AwaitingGeneration"
  /\ \E u \in Units : genUnit[u] = "rejected"
  /\ pc' = "Rejected"
  /\ UNCHANGED << config, genUnit, genResult, disk, created, copies, loopI,
                  copyResults, result, cleanupArg, unlinkFailed >>
  /\ UNCHANGED auxVars

\* the copy units of the batch the coordinator is awaiting
CurrentBatch ==
  { j \in DOMAIN copies :
      copies[j].origin = "batch" /\ copies[j].batchStart = loopI }

BatchSettledOrAnyOne ==
  \E j \in CurrentBatch : copies[j].status = "resolved"

\* Promise.all(batchPromises) resolves
BatchSettled ==
  \A j \in CurrentBatch : copies[j].status = "resolved"

batchResults ==
  LET units == SelectSeq(copies, LAMBDA c : c.origin = "batch"
                                            /\ c.batchStart = loopI)
  IN  [k \in 1 .. Len(units) |-> units[k].result]

\* lines 67-76 and the loop header: collect the batch, then start the next
\* batch or leave the loop
BatchBarrier ==
  /\ pc = "AwaitingCopies"
  /\ BatchSettled
  /\ copyResults' = copyResults \o batchResults
  /\ loopI' = loopI + maxConcurrentCopies
  /\ IF LoopContinues(loopI + maxConcurrentCopies)
       THEN /\ copies' = copies \o batchPromises(loopI + maxConcurrentCopies)
            /\ pc' = "AwaitingCopies"
            /\ UNCHANGED clock
       ELSE /\ pc' = "Aggregating"
            /\ clock' = [clock EXCEPT !.copyEnd = clock.now]
            /\ UNCHANGED copies
  /\ UNCHANGED << config, genUnit, genResult, disk, created, result,
                  cleanupArg, unlinkFailed >>
  /\ UNCHANGED otherVars

\* Promise.all(batchPromises) rejects as soon as one promise rejects
BatchReject ==
  /\ pc = "AwaitingCopies"
  /\ \E j \in CurrentBatch : copies[j].status = "rejected"
  /\ pc' = "Rejected"
  /\ UNCHANGED << config, genUnit, genResult, disk, created, copies, loopI,
                  copyResults, result, cleanupArg, unlinkFailed >>
  /\ UNCHANGED auxVars

successfulCopies == SelectSeq(copyResults, LAMBDA r : r.success)

failedCopies == SelectSeq(copyResults, LAMBDA r : ~r.success)

ErrorOr(r, default) == IF r.error = "" THEN default ELSE r.error

errors ==
  [k \in 1 .. Len(failedGenerations) |->
     ErrorOr(failedGenerations[k], "Generation failed")]
  \o [k \in 1 .. Len(failedCopies) |-> ErrorOr(failedCopies[k], "COPY failed")]

\* line 92: (overallEndTime - overallStartTime) / 1000
overallDuration == clock.now - clock.overallStart

\* line 93: (copyEndTime - copyStartTime) / 1000
copyDuration == clock.copyEnd - clock.copyStart

\* lines 79-106 and 113-134: the aggregate figures of the BenchmarkResult;
\* successRate and the two throughputs are pairs << numerator, denominator >>
BenchmarkResult ==
  [totalConnections |-> Len(successfulGenerations),
   batchSize |-> RecordsPerConnection(config),
   totalRecords |->
     SumSeq([k \in 1 .. Len(successfulCopies) |-> successfulCopies[k].recordsInserted]),
   totalDataSizeMB |->
     SumSeq([k \in 1 .. Len(successfulCopies) |-> successfulCopies[k].dataSizeMB]),
   successCount |-> Len(successfulCopies),
   errorCount |-> Len(failedCopies),
   successRate |-> << Len(successfulCopies),
                      Len(successfulCopies) + Len(failedCopies) >>,
   errors |-> Take(errors, ErrorsLimit),
   duration |-> copyDuration,
   throughputMBps |->
     << SumSeq([k \in 1 .. Len(successfulCopies) |-> successfulCopies[k].dataSizeMB]),
        copyDuration >>,
   throughputRecordsPerSecond |->
     << SumSeq([k \in 1 .. Len(successfulCopies) |-> successfulCopies[k].recordsInserted]),
        copyDuration >>]

Aggregate ==
  /\ pc = "Aggregating"
  /\ result' = BenchmarkResult
  /\ pc' = "CleaningUp"
  /\ UNCHANGED << config, genUnit, genResult, disk, created, copies, loopI,
                  copyResults, cleanupArg, unlinkFailed >>
  /\ UNCHANGED auxVars

allFilePathsOfSuccessesOnly ==
  [k \in 1 .. Len(successfulGenerations) |-> successfulGenerations[k].filePath]

\* line 109: generationResults.map(r => r.filePath).filter(p => p)
allFilePaths ==
  SelectSeq([u \in Units |-> generationResults[u].filePath],
            LAMBDA p : p # NoPath)

Range(s) == { s[k] : k \in DOMAIN s }

\* fs.unlinkSync(filePath) throws: the path exists and is one of `failing`
UnlinkThrows(d, p, failing) == d[p] # "none" /\ p \in failing

CleanupCatchesNothing(p) == FALSE

\* the try / catch around one path's deletion: the error is logged
CleanupCatches(p) == TRUE

\* the for loop of cleanupFiles over filePaths, from the disk d; raised says
\* whether an error left the function
RECURSIVE cleanupLoop(_, _, _)
cleanupLoop(d, filePaths, failing) ==
  IF filePaths = << >>
    THEN [disk |-> d, raised |-> FALSE]
    ELSE LET p == Head(filePaths)
         IN  IF d[p] = "none"
               THEN cleanupLoop(d, Tail(filePaths), failing)
               ELSE IF UnlinkThrows(d, p, failing)
                      THEN IF CleanupCatches(p)
                             THEN cleanupLoop(d, Tail(filePaths), failing)
                             ELSE [disk |-> d, raised |-> TRUE]
                      ELSE cleanupLoop([d EXCEPT ![p] = "none"],
                                       Tail(filePaths), failing)

\* cleanupFiles: unlink every listed path that exists; a failing unlink is
\* logged and the loop goes on.  failing = the paths whose unlink throws.
cleanupFiles(filePaths, failing) == cleanupLoop(disk, filePaths, failing).disk

cleanupFilesRaises(filePaths, failing) ==
  cleanupLoop(disk, filePaths, failing).raised

\* lines 108-146: clean up, build the result object and return it
Cleanup ==
  /\ pc = "CleaningUp"
  /\ \E failing \in SUBSET { p \in Range(allFilePaths) : disk[p] # "none" } :
       /\ disk' = cleanupFiles(allFilePaths, failing)
       /\ unlinkFailed' = failing
       /\ pc' = IF cleanupFilesRaises(allFilePaths, failing)
                  THEN "Rejected" ELSE "Done"
  /\ cleanupArg' = allFilePaths
  /\ UNCHANGED << config, genUnit, genResult, created, copies, loopI,
                  copyResults, result >>
  /\ UNCHANGED auxVars

\* ------------------------------------------------------------ specification
NoClock == [now |-> 0, overallStart |-> 0, copyStart |-> 0, copyEnd |-> 0]

NoStats == [n |-> 0, p50 |-> 0, p95 |-> 0, p99 |-> 0, min |-> 0, max |-> 0]

Configs ==
  { cfg \in [minWorkers : 1 .. MaxWorkers,
             connectionsPerWorker : 1 .. MaxConnectionsPerWorker,
             dataSizeMB : 1 .. MaxDataSizeMB] :
      TotalConnections(cfg) <= MaxUnits }

Init ==
  /\ config \in Configs
  /\ pc = "Idle"
  /\ genUnit = [u \in 1 .. TotalConnections(config) |-> "idle"]
  /\ genResult = [u \in 1 .. TotalConnections(config) |-> NoGenResult]
  /\ disk = [p \in 1 .. TotalConnections(config) |-> "none"]
  /\ created = {}
  /\ copies = << >>
  /\ loopI = 0
  /\ copyResults = << >>
  /\ result = NoResult
  /\ cleanupArg = << >>
  /\ unlinkFailed = {}
  /\ clock = NoClock
  /\ exec = << >>
  /\ mainPc = "NotMain"
  /\ latencies = << >>
  /\ workerStats = NoStats
  /\ locals = << >>

Next ==
  \/ SpawnGenerators
  \/ \E u \in Units : GenOpen(u)
  \/ \E u \in Units : GenOpenFail(u)
  \/ \E u \in Units : GenFinish(u)
  \/ \E u \in Units : GenStreamError(u)
  \/ \E u \in Units : GenCrash(u)
  \/ GenerationBarrier
  \/ GenerationReject
  \/ \E j \in DOMAIN copies : CopySucceed(j)
  \/ \E j \in DOMAIN copies : CopyFail(j)
  \/ \E j \in DOMAIN copies : CopyCrash(j)
  \/ BatchBarrier
  \/ BatchReject
  \/ Aggregate
  \/ Cleanup

Spec == Init /\ [][Next]_vars

\* ------------------------------------------------------------------ claims
StageTwoOver == pc \in {"Aggregating", "CleaningUp", "Done"}

InFlightCopies ==
  Cardinality({ j \in DOMAIN copies : copies[j].status = "running" })

CopyInvocations(p) ==
  Cardinality({ j \in DOMAIN copies : copies[j].filePath = p })

\* C1: at every moment the number of copy worker units started by
\* runCopyExecution and not yet completed is at most maxConcurrentCopies =
\* min(ceiling, number of successful generations).
C1_InFlightWithinCap == InFlightCopies <= maxConcurrentCopies

\* C2: runCopyExecution is invoked exactly once for each successfully
\* generated artifact path: never twice, and not zero times once stage 2 is over.
C2_EachArtifactCopiedOnce ==
  \A k \in 1 .. Len(successfulGenerations) :
    /\ CopyInvocations(successfulGenerations[k].filePath) <= 1
    /\ StageTwoOver => CopyInvocations(successfulGenerations[k].filePath) = 1

BatchUnits(i) ==
  { j \in DOMAIN copies : copies[j].origin = "batch" /\ copies[j].batchStart = i }

C4_CopiesAfterAllGenerations ==
  copies # << >> => \A u \in Units : genUnit[u] = "resolved"

C4_Witness ==
  /\ copies # << >>
  /\ \E u \in Units : ~genResult[u].success
  /\ \E u \in Units : genResult[u].success

\* C5: every artifact path passed to the loader comes from a generation
\* outcome with success = true, and a generation unit reports success only
\* once its write stream has finished (the file is complete); the artifact of
\* a failed or unfinished generation is never handed to the loader.
C5_OnlyFinishedArtifactsLoaded ==
  /\ \A j \in DOMAIN copies :
       /\ copies[j].filePath \in Units
       /\ genResult[copies[j].filePath].success
       /\ genUnit[copies[j].filePath] = "resolved"
  /\ \A u \in Units :
       (genResult[u].success /\ pc # "Done") => disk[PathOfUnit(u)] = "complete"

C5_Witness ==
  /\ \E j \in DOMAIN copies : copies[j].status = "running"
  /\ \E u \in Units :
       /\ ~genResult[u].success
       /\ disk[PathOfUnit(u)] = "partial"
       /\ CopyInvocations(PathOfUnit(u)) = 0

AllGenerationsFailed ==
  \A u \in Units : genUnit[u] = "resolved" /\ ~genResult[u].success

\* C6: if every generation unit reports failure, the run raises the fatal
\* error before any runCopyExecution, enters no stage-2 barrier and returns
\* no BenchmarkResult.
C6_ZeroSuccessIsFatal ==
  AllGenerationsFailed =>
    /\ pc \in {"AwaitingGeneration", "Failed"}
    /\ copies = << >>
    /\ copyResults = << >>
    /\ result = NoResult

C6_Witness == AllGenerationsFailed /\ pc = "Failed"

\* C7: with G generation units of which F fail (0 < F < G) and every load
\* succeeding, the returned result has successCount = G - F, errorCount >= F
\* and successRate = (G - F) / G.
C7_PartialFailureCounts ==
  LET G == Cardinality(Units)
      F == Len(failedGenerations)
  IN  (/\ pc = "Done"
       /\ 0 < F
       /\ F < G
       /\ \A k \in DOMAIN copyResults : copyResults[k].success) =>
        /\ result.successCount = G - F
        /\ result.errorCount >= F
        /\ result.successRate[1] * G = result.successRate[2] * (G - F)

\* C8: a failure inside a generation or copy worker unit, an error event or
\* a non-zero exit code included, reaches the coordinator as a typed outcome
\* with success = false and never makes runTwoStageBenchmark reject.
C8_WorkerFailureNeverRejectsRun == pc # "Rejected"

FailedCopyIsZero(r) ==
  ~r.success => (r.recordsInserted = 0 /\ r.dataSizeMB = 0)

\* C9: a failed copy unit returns success = false with recordsInserted = 0
\* and dataSizeMB = 0, and the remaining loads of its batch and of every
\* later batch are still run and their outcomes collected.
C9_CopyFailureIsZeroAndIsolated ==
  /\ \A j \in DOMAIN copies :
       copies[j].status = "resolved" => FailedCopyIsZero(copies[j].result)
  /\ \A k \in DOMAIN copyResults : FailedCopyIsZero(copyResults[k])
  /\ StageTwoOver =>
       /\ Len(copyResults) = Len(successfulGenerations)
       /\ \A k \in DOMAIN copyResults :
            copyResults[k].filePath = successfulGenerations[k].filePath

C9_Witness ==
  /\ pc = "Done"
  /\ maxConcurrentCopies > 1
  /\ Len(copyResults) > maxConcurrentCopies
  /\ ~copyResults[1].success
  /\ copyResults[2].success
  /\ copyResults[Len(copyResults)].success

\* C10: when the run returns a result, cleanupFiles has been called with the
\* path of every generation unit that created a file, whatever the outcome
\* of its generation or load, so that no artifact remains on disk when no
\* deletion failed.
C10_CleanupCoversEveryArtifact ==
  pc = "Done" =>
    /\ created \subseteq Range(cleanupArg)
    /\ unlinkFailed = {} => \A p \in DOMAIN disk : disk[p] = "none"

C10_Witness ==
  /\ pc = "Done"
  /\ unlinkFailed = {}
  /\ \E u \in Units : ~genResult[u].success /\ PathOfUnit(u) \in created
  /\ \E k \in DOMAIN copyResults : ~copyResults[k].success
  /\ \E k \in DOMAIN copyResults : copyResults[k].success

\* C11: cleanup runs only after the last stage-2 barrier: at the moment
\* cleanupFiles deletes an artifact, no copy worker unit started on that
\* artifact is still running.
C11_NoCopyRunningAtCleanup ==
  pc = "CleaningUp" =>
    \A j \in DOMAIN copies :
      copies[j].filePath \in Range(allFilePaths) => copies[j].status # "running"

\* --------------------------------------------------- cleanupFiles on its own
MaxCleanupPaths == 2
MaxCleanupArgs == 3

SeqsUpTo(S, n) == UNION { [1 .. k -> S] : k \in 0 .. n }

\* the state around a call of cleanupFiles: any disk, any list of paths
CleanupInit ==
  /\ disk \in [1 .. MaxCleanupPaths -> {"none", "partial", "complete"}]
  /\ cleanupArg \in SeqsUpTo(1 .. MaxCleanupPaths, MaxCleanupArgs)
  /\ created = { p \in DOMAIN disk : disk[p] # "none" }
  /\ pc = "CleanupNotCalled"
  /\ unlinkFailed = {}
  /\ config = [minWorkers |-> 1, connectionsPerWorker |-> 1, dataSizeMB |-> 1]
  /\ genUnit = << >>
  /\ genResult = << >>
  /\ copies = << >>
  /\ loopI = 0
  /\ copyResults = << >>
  /\ result = NoResult
  /\ clock = NoClock
  /\ exec = << >>
  /\ mainPc = "NotMain"
  /\ latencies = << >>
  /\ workerStats = NoStats
  /\ locals = << >>

\* cleanupFiles(cleanupArg), a first and a second time

CallCleanupFiles(failing) ==
  /\ pc \in {"CleanupNotCalled", "CleanedOnce"}
  /\ disk' = cleanupFiles(cleanupArg, failing)
  /\ unlinkFailed' = { p \in Range(cleanupArg) : UnlinkThrows(disk, p, failing) }
  /\ pc' = IF cleanupFilesRaises(cleanupArg, failing) THEN "CleanupRaised"
           ELSE IF pc = "CleanupNotCalled" THEN "CleanedOnce"
           ELSE "CleanedTwice"
  /\ UNCHANGED << config, genUnit, genResult, created, copies, loopI,
                  copyResults, result, cleanupArg >>
  /\ UNCHANGED auxVars

CleanupNext == \E failing \in SUBSET (1 .. MaxCleanupPaths) : CallCleanupFiles(failing)

CleanupSpec == CleanupInit /\ [][CleanupNext]_vars

\* C12: cleanupFiles never raises, whatever the paths: called twice on the
\* same set, on paths that do not exist, or when a deletion fails; a failure
\* on one path does not stop the attempts on the later paths, after a call
\* with no failure none of the paths exists, and other paths are untouched.
C12_CleanupNeverRaises ==
  /\ pc # "CleanupRaised"
  /\ pc \in {"CleanedOnce", "CleanedTwice"} =>
       /\ \A p \in Range(cleanupArg) : p \notin unlinkFailed => disk[p] = "none"
       /\ \A p \in unlinkFailed : disk[p] # "none"
       /\ \A p \in DOMAIN disk \ Range(cleanupArg) :
            (disk[p] # "none") <=> (p \in created)

C12_Witness ==
  /\ pc = "CleanedTwice"
  /\ Len(cleanupArg) = MaxCleanupArgs
  /\ cleanupArg[1] \in unlinkFailed
  /\ cleanupArg[2] \in created \ unlinkFailed
  /\ disk[cleanupArg[2]] = "none"
  /\ cleanupArg[3] = cleanupArg[2]

\* ---------------------------------------------- executeCopyCommand on its own
MaxExecCalls == 2

\* one call of executeCopyCommand, each in its own worker thread with its own
\* database handle: where it is, how often it acquired and released a
\* connection and destroyed the handle, and the outcome it will return
NewExec ==
  [pc |-> "start", acquired |-> 0, released |-> 0, destroyed |-> 0,
   success |-> FALSE]

ExecStep(k, at, next) ==
  /\ exec[k].pc = at
  /\ exec' = [exec EXCEPT ![k] = next]
  /\ UNCHANGED << config, pc, genUnit, genResult, disk, created, copies, loopI,
                  copyResults, result, cleanupArg, unlinkFailed, clock,
                  mainPc, latencies, workerStats, locals >>

\* line 204: createAuroraLimitlessConnection(config)
ExecCreateDb(k) == ExecStep(k, "start", [exec[k] EXCEPT !.pc = "stat"])

\* line 208: calculateFileSizeMB(absoluteFilePath) returns
ExecStatOk(k) == ExecStep(k, "stat", [exec[k] EXCEPT !.pc = "acquire"])

\* line 208: statSync throws (the file is missing): to the outer catch
ExecStatThrows(k) == ExecStep(k, "stat", [exec[k] EXCEPT !.pc = "catch"])

\* line 211: db.client.acquireConnection() resolves
ExecAcquireOk(k) ==
  ExecStep(k, "acquire",
           [exec[k] EXCEPT !.pc = "stream", !.acquired = @ + 1])

\* line 211: acquireConnection rejects, before the inner try is entered
ExecAcquireThrows(k) == ExecStep(k, "acquire", [exec[k] EXCEPT !.pc = "catch"])

\* lines 215-250: the COPY stream finished; the success result is returned
\* through the inner finally
ExecStreamFinish(k) ==
  ExecStep(k, "stream", [exec[k] EXCEPT !.pc = "release", !.success = TRUE])

\* lines 233-234: the file stream or the COPY stream emitted error; the
\* rejection leaves through the inner finally
ExecStreamError(k) ==
  ExecStep(k, "stream", [exec[k] EXCEPT !.pc = "release", !.success = FALSE])

ReleasedOnlyOnSuccess(e) == IF e.success THEN e.released + 1 ELSE e.released

\* lines 251-253: finally { db.client.releaseConnection(client) }
ReleasedByFinally(e) == e.released + 1

ExecRelease(k) ==
  ExecStep(k, "release",
           [exec[k] EXCEPT !.released = ReleasedByFinally(exec[k]),
                           !.pc = IF exec[k].success THEN "destroy" ELSE "catch"])

\* lines 254-267: the outer catch builds the failure result
ExecCatch(k) ==
  ExecStep(k, "catch", [exec[k] EXCEPT !.pc = "destroy", !.success = FALSE])

\* lines 268-270: finally { await db.destroy() }, then the outcome is delivered
ExecDestroy(k) ==
  ExecStep(k, "destroy",
           [exec[k] EXCEPT !.pc = "delivered", !.destroyed = @ + 1])

ExecInit ==
  /\ exec = [k \in 1 .. MaxExecCalls |-> NewExec]
  /\ config = [minWorkers |-> 1, connectionsPerWorker |-> 1, dataSizeMB |-> 1]
  /\ pc = "NotCalled"
  /\ genUnit = << >>
  /\ genResult = << >>
  /\ disk = << >>
  /\ created = {}
  /\ copies = << >>
  /\ loopI = 0
  /\ copyResults = << >>
  /\ result = NoResult
  /\ cleanupArg = << >>
  /\ unlinkFailed = {}
  /\ clock = NoClock
  /\ mainPc = "NotMain"
  /\ latencies = << >>
  /\ workerStats = NoStats
  /\ locals = << >>

ExecNext ==
  \E k \in DOMAIN exec :
    \/ ExecCreateDb(k)
    \/ ExecStatOk(k)
    \/ ExecStatThrows(k)
    \/ ExecAcquireOk(k)
    \/ ExecAcquireThrows(k)
    \/ ExecStreamFinish(k)
    \/ ExecStreamError(k)
    \/ ExecRelease(k)
    \/ ExecCatch(k)
    \/ ExecDestroy(k)

ExecSpec == ExecInit /\ [][ExecNext]_vars

\* C13: on every exit path of executeCopyCommand every acquired connection
\* is released exactly once and the database handle is destroyed exactly once
\* before the outcome is delivered; no connection is released that was never
\* acquired.
C13_ConnectionsReleasedOnEveryPath ==
  \A k \in DOMAIN exec :
    /\ exec[k].released <= exec[k].acquired
    /\ exec[k].destroyed <= 1
    /\ exec[k].pc \in {"destroy", "catch", "delivered"} =>
         exec[k].released = exec[k].acquired
    /\ exec[k].pc = "delivered" => exec[k].destroyed = 1
    /\ exec[k].pc # "delivered" => exec[k].destroyed = 0

C13_Witness ==
  /\ exec[1].pc = "delivered" /\ ~exec[1].success /\ exec[1].acquired = 1
  /\ exec[2].pc = "delivered" /\ ~exec[2].success /\ exec[2].acquired = 0

\* ------------------------------------------------ runHighThroughputBenchmark
HighThroughputCeiling == 3
MaxHTConnections == 3
MaxConfiguredCopies == 1

\* HighThroughputConfig with maxConcurrentCopies; 0 stands for "not given"
HTConfigs ==
  [minWorkers : {1}, connectionsPerWorker : 1 .. MaxHTConnections,
   dataSizeMB : {1}, maxConcurrentCopies : 0 .. MaxConfiguredCopies]

\* optimized-two-stage.ts lines 18-23: config.maxConcurrentCopies ||
\* Math.min(ceiling, config.minWorkers * config.connectionsPerWorker)
optimizedConfig(cfg) ==
  [cfg EXCEPT !.maxConcurrentCopies =
     IF @ # 0 THEN @ ELSE Min(HighThroughputCeiling, TotalConnections(cfg))]

\* line 31: runTwoStageBenchmark(optimizedConfig) is about to run
HTInit ==
  /\ \E cfg \in HTConfigs : config = optimizedConfig(cfg)
  /\ pc = "Idle"
  /\ genUnit = [u \in 1 .. TotalConnections(config) |-> "idle"]
  /\ genResult = [u \in 1 .. TotalConnections(config) |-> NoGenResult]
  /\ disk = [p \in 1 .. TotalConnections(config) |-> "none"]
  /\ created = {}
  /\ copies = << >>
  /\ loopI = 0
  /\ copyResults = << >>
  /\ result = NoResult
  /\ cleanupArg = << >>
  /\ unlinkFailed = {}
  /\ clock = NoClock
  /\ exec = << >>
  /\ mainPc = "NotMain"
  /\ latencies = << >>
  /\ workerStats = NoStats
  /\ locals = << >>

HTSpec == HTInit /\ [][Next]_vars

\* C14: in runHighThroughputBenchmark the stage-2 batches have the size of
\* the configured maxConcurrentCopies (or min(ceiling, minWorkers x
\* connectionsPerWorker) when none is configured), the last batch the size of
\* what remains, and the number of copy units in flight is bounded by that cap.
C14_BatchesOfConfiguredSize ==
  pc = "AwaitingCopies" =>
    /\ Cardinality(CurrentBatch) =
         Min(config.maxConcurrentCopies, Len(successfulGenerations) - loopI)
    /\ InFlightCopies <= config.maxConcurrentCopies

\* ------------------------------------------------------- the errors list
ResultBuilt == pc \in {"CleaningUp", "Done"}

\* the generation units whose outcome is a failure, and the positions of
\* copyResults holding a failed load outcome
FailedUnits == { u \in Units : ~genResult[u].success }

FailedLoads == { j \in DOMAIN copyResults : ~copyResults[j].success }

\* the k-th element of a finite set of numbers, in ascending order
Kth(S, k) == CHOOSE x \in S : Cardinality({ y \in S : y <= x }) = k

\* the message at position k of: the messages of all failed generation
\* outcomes followed by the messages of all failed load outcomes
FailureMessage(k) ==
  IF k <= Cardinality(FailedUnits)
    THEN ErrorOr(genResult[Kth(FailedUnits, k)], "Generation failed")
    ELSE ErrorOr(copyResults[Kth(FailedLoads, k - Cardinality(FailedUnits))],
                 "COPY failed")

\* C15: the errors list of the result has at most the limit's number of
\* entries and is the first that many elements of the messages of all failed
\* generation outcomes followed by the messages of all failed load outcomes.
C15_ErrorsAreFirstOfAllFailures ==
  ResultBuilt =>
    /\ Len(result.errors) <= ErrorsLimit
    /\ Len(result.errors) =
         Min(ErrorsLimit, Cardinality(FailedUnits) + Cardinality(FailedLoads))
    /\ \A k \in 1 .. Len(result.errors) : result.errors[k] = FailureMessage(k)

\* more failures than the limit, of both kinds, and a load failure among
\* the entries kept
C15_Witness ==
  /\ ResultBuilt
  /\ Cardinality(FailedUnits) + Cardinality(FailedLoads) > ErrorsLimit
  /\ Cardinality(FailedUnits) = 1
  /\ Len(result.errors) = ErrorsLimit
  /\ result.errors[ErrorsLimit] = "COPY stream error"

\* C16: the errors list of the final BenchmarkResult holds distinct error
\* strings: no two entries are equal, also when several workers fail with the
\* same message.
C16_ErrorsAreDistinct ==
  ResultBuilt =>
    \A i, j \in DOMAIN result.errors :
      i # j => result.errors[i] # result.errors[j]

\* ------------------------------------------------------ the run with a clock
MaxTime == 3
MaxTimedUnits == 2

\* Date.now() advances while the coordinator awaits its worker units
Tick ==
  /\ pc \in {"AwaitingGeneration", "AwaitingCopies"}
  /\ clock.now < MaxTime
  /\ clock' = [clock EXCEPT !.now = @ + 1]
  /\ UNCHANGED << config, pc, genUnit, genResult, disk, created, copies, loopI,
                  copyResults, result, cleanupArg, unlinkFailed >>
  /\ UNCHANGED otherVars

TimedInit ==
  /\ config \in { cfg \in Configs : TotalConnections(cfg) <= MaxTimedUnits }
  /\ pc = "Idle"
  /\ genUnit = [u \in 1 .. TotalConnections(config) |-> "idle"]
  /\ genResult = [u \in 1 .. TotalConnections(config) |-> NoGenResult]
  /\ disk = [p \in 1 .. TotalConnections(config) |-> "none"]
  /\ created = {}
  /\ copies = << >>
  /\ loopI = 0
  /\ copyResults = << >>
  /\ result = NoResult
  /\ cleanupArg = << >>
  /\ unlinkFailed = {}
  /\ clock = NoClock
  /\ exec = << >>
  /\ mainPc = "NotMain"
  /\ latencies = << >>
  /\ workerStats = NoStats
  /\ locals = << >>

TimedNext == Next \/ Tick

TimedSpec == TimedInit /\ [][TimedNext]_vars

\* the rows and the megabytes of the first n load outcomes the batches
\* collected, counting the successful ones only
RECURSIVE SuccessfulRows(_)
SuccessfulRows(n) ==
  IF n = 0 THEN 0
  ELSE SuccessfulRows(n - 1)
       + (IF copyResults[n].success THEN copyResults[n].recordsInserted ELSE 0)

RECURSIVE SuccessfulMB(_)
SuccessfulMB(n) ==
  IF n = 0 THEN 0
  ELSE SuccessfulMB(n - 1)
       + (IF copyResults[n].success THEN copyResults[n].dataSizeMB ELSE 0)

\* C17: in the result, throughputRecordsPerSecond x duration = totalRecords
\* and throughputMBps x duration = totalDataSizeMB, where duration is the time
\* from the start of stage 2 to the completion of the last batch (generation
\* time excluded) and the totals sum over successful loads only; a single
\* load reporting n rows after a delay d gives throughputRecordsPerSecond =
\* n/d.  Stated for a load stage that took time (d > 0).
C17_ThroughputOverLoadStage ==
  (ResultBuilt /\ clock.copyEnd > clock.copyStart) =>
    /\ result.duration = clock.copyEnd - clock.copyStart
    /\ result.totalRecords = SuccessfulRows(Len(copyResults))
    /\ result.totalDataSizeMB = SuccessfulMB(Len(copyResults))
    /\ result.throughputRecordsPerSecond =
         << result.totalRecords, result.duration >>
    /\ result.throughputMBps = << result.totalDataSizeMB, result.duration >>
    /\ (Len(copyResults) = 1 /\ copyResults[1].success) =>
         result.throughputRecordsPerSecond =
           << copyResults[1].recordsInserted,
              clock.copyEnd - clock.copyStart >>

\* generation took time, the load stage took time, one load succeeded and
\* one failed
C17_Witness ==
  /\ ResultBuilt
  /\ clock.copyStart > clock.overallStart
  /\ clock.copyEnd > clock.copyStart
  /\ \E j \in DOMAIN copyResults : copyResults[j].success
  /\ \E j \in DOMAIN copyResults : ~copyResults[j].success
  /\ result.totalRecords > 0

\* the worker units that have the artifact at path p open: the generation
\* unit writing it and the copy units reading it
UnitsOnArtifact(p) ==
  Cardinality({ u \in Units : PathOfUnit(u) = p /\ genUnit[u] = "writing" })
  + Cardinality({ j \in DOMAIN copies :
                    copies[j].filePath = p /\ copies[j].status = "running" })

\* C18: no two worker units ever access the same staged artifact: distinct
\* generation units write to distinct paths, and at any moment at most one
\* worker unit (generating or copying) has a given artifact open.
C18_OneUnitPerArtifact ==
  /\ \A u, v \in Units : u # v => PathOfUnit(u) # PathOfUnit(v)
  /\ \A p \in DOMAIN disk : UnitsOnArtifact(p) <= 1

\* -------------------------------------------------------------------- main
MaxMainUnits == 2

\* main before its first statement: where it is, what the connectivity check
\* said, and whether the result file was written
MainStart == [at |-> "start", connected |-> "unchecked", resultFile |-> FALSE]

MainStep(at, next) ==
  /\ pc = "NotCalled"
  /\ mainPc.at = at
  /\ mainPc' = next
  /\ UNCHANGED << config, pc, genUnit, genResult, disk, created, copies, loopI,
                  copyResults, result, cleanupArg, unlinkFailed, clock, exec,
                  latencies, workerStats, locals >>

\* index.ts lines 130-133: the password is set
MainPasswordPresent ==
  MainStep("start", [mainPc EXCEPT !.at = "connecting"])

\* lines 130-133: no password, process.exit(1)
MainPasswordMissing == MainStep("start", [mainPc EXCEPT !.at = "exited"])

\* lines 135-138 and 142-144: SELECT 1 succeeded, then finally db.destroy()
MainSelectOk ==
  MainStep("connecting", [mainPc EXCEPT !.at = "checked", !.connected = "ok"])

AfterConnectivityFailureLogged == "checked"

\* lines 139-141: the catch of the connectivity check ends in process.exit(1)
AfterConnectivityFailure == "exited"

\* lines 137 and 139-141: SELECT 1 failed
MainSelectFails ==
  MainStep("connecting",
           [mainPc EXCEPT !.at = AfterConnectivityFailure,
                          !.connected = "failed"])

\* line 146 with lines 38-43: runBenchmark enters runTwoStageBenchmark,
\* directly or through runHighThroughputBenchmark
MainRunStaged ==
  /\ pc = "NotCalled"
  /\ mainPc.at = "checked"
  /\ mainPc' = [mainPc EXCEPT !.at = "running"]
  /\ pc' = "Idle"
  /\ UNCHANGED << config, genUnit, genResult, disk, created, copies, loopI,
                  copyResults, result, cleanupArg, unlinkFailed, clock, exec,
                  latencies, workerStats, locals >>

\* line 146 with lines 34-36 and 45-66: runBenchmark starts the workers of
\* the streaming or of the standard mode
MainRunNonStaged == MainStep("checked", [mainPc EXCEPT !.at = "runningNonStaged"])

\* lines 146-160: runBenchmark resolved, the result file is written
MainSaveResult ==
  /\ \/ mainPc.at = "running" /\ pc = "Done"
     \/ mainPc.at = "runningNonStaged"
  /\ mainPc' = [mainPc EXCEPT !.at = "saved", !.resultFile = TRUE]
  /\ UNCHANGED << config, pc, genUnit, genResult, disk, created, copies, loopI,
                  copyResults, result, cleanupArg, unlinkFailed, clock, exec,
                  latencies, workerStats, locals >>

\* lines 161-164: runBenchmark rejected, process.exit(1)
MainCatch ==
  /\ \/ mainPc.at = "running" /\ pc \in {"Failed", "Rejected"}
     \/ mainPc.at = "runningNonStaged"
  /\ mainPc' = [mainPc EXCEPT !.at = "exited"]
  /\ UNCHANGED << config, pc, genUnit, genResult, disk, created, copies, loopI,
                  copyResults, result, cleanupArg, unlinkFailed, clock, exec,
                  latencies, workerStats, locals >>

MainInit ==
  /\ config \in { cfg \in Configs : TotalConnections(cfg) <= MaxMainUnits }
  /\ pc = "NotCalled"
  /\ mainPc = MainStart
  /\ genUnit = [u \in 1 .. TotalConnections(config) |-> "idle"]
  /\ genResult = [u \in 1 .. TotalConnections(config) |-> NoGenResult]
  /\ disk = [p \in 1 .. TotalConnections(config) |-> "none"]
  /\ created = {}
  /\ copies = << >>
  /\ loopI = 0
  /\ copyResults = << >>
  /\ result = NoResult
  /\ cleanupArg = << >>
  /\ unlinkFailed = {}
  /\ clock = NoClock
  /\ exec = << >>
  /\ latencies = << >>
  /\ workerStats = NoStats
  /\ locals = << >>

MainNext ==
  \/ MainPasswordPresent
  \/ MainPasswordMissing
  \/ MainSelectOk
  \/ MainSelectFails
  \/ MainRunStaged
  \/ MainRunNonStaged
  \/ MainSaveResult
  \/ MainCatch
  \/ Next

MainSpec == MainInit /\ [][MainNext]_vars

\* C19: if the initial connectivity check (SELECT 1) in main fails, the
\* process aborts before any worker unit of any mode is started and no result
\* file is written.
C19_ConnectivityFailureAborts ==
  mainPc.connected = "failed" =>
    /\ mainPc.at = "exited"
    /\ ~mainPc.resultFile
    /\ pc = "NotCalled"
    /\ \A u \in DOMAIN genUnit : genUnit[u] = "idle"
    /\ copies = << >>
    /\ created = {}

C19_Witness == mainPc.connected = "failed" /\ mainPc.at = "exited"

\* ------------------------------------- the statistics of a non-staged worker
MaxLatencies == 21
MaxLatency == 2

RECURSIVE Insert(_, _)
Insert(x, s) ==
  IF s = << >> THEN << x >>
  ELSE IF x <= Head(s) THEN << x >> \o s
       ELSE << Head(s) >> \o Insert(x, Tail(s))

Unsorted(s) == s

\* types.ts line 274: .sort((a, b) => a - b) on the mapped copy
RECURSIVE SortAscending(_)
SortAscending(s) ==
  IF s = << >> THEN << >> ELSE Insert(Head(s), SortAscending(Tail(s)))

\* Math.floor(latencies.length * 0.5), 0.95, 0.99 with pct = 50, 95, 99
PercentileIndex(n, pct) == (n * pct) \div 100

\* a JavaScript array read at a 0-based index
At(s, i) == s[i + 1]

\* lines 274 and 287-291 of the worker's result
WorkerStatistics(lats) ==
  LET sorted == SortAscending(lats)
      n == Len(sorted)
  IN [n |-> n,
      p50 |-> At(sorted, PercentileIndex(n, 50)),
      p95 |-> At(sorted, PercentileIndex(n, 95)),
      p99 |-> At(sorted, PercentileIndex(n, 99)),
      min |-> At(sorted, 0),
      max |-> At(sorted, n - 1)]

PercentileStep(next, stats) ==
  /\ workerStats = NoStats
  /\ latencies' = next
  /\ workerStats' = stats
  /\ UNCHANGED << config, pc, genUnit, genResult, disk, created, copies, loopI,
                  copyResults, result, cleanupArg, unlinkFailed, clock, exec,
                  mainPc, locals >>

\* the measurements arrive in another order
Rotate ==
  /\ Len(latencies) > 1
  /\ PercentileStep(Tail(latencies) \o << Head(latencies) >>, NoStats)

Reverse ==
  /\ Len(latencies) > 1
  /\ PercentileStep([k \in 1 .. Len(latencies) |->
                       latencies[Len(latencies) + 1 - k]], NoStats)

ComputeStats == PercentileStep(latencies, WorkerStatistics(latencies))

\* the nondecreasing lists of n values out of 1 .. m
RECURSIVE Nondecreasing(_, _)
Nondecreasing(n, m) ==
  IF n = 0 THEN { << >> }
  ELSE UNION { { Append(s, v) : v \in (IF s = << >> THEN 1 ELSE s[Len(s)]) .. m } :
               s \in Nondecreasing(n - 1, m) }

PercentileInit ==
  /\ latencies \in UNION { Nondecreasing(n, MaxLatency) : n \in 1 .. MaxLatencies }
  /\ workerStats = NoStats
  /\ config = [minWorkers |-> 1, connectionsPerWorker |-> 1, dataSizeMB |-> 1]
  /\ pc = "NotCalled"
  /\ genUnit = << >>
  /\ genResult = << >>
  /\ disk = << >>
  /\ created = {}
  /\ copies = << >>
  /\ loopI = 0
  /\ copyResults = << >>
  /\ result = NoResult
  /\ cleanupArg = << >>
  /\ unlinkFailed = {}
  /\ clock = NoClock
  /\ exec = << >>
  /\ mainPc = "NotMain"
  /\ locals = << >>

PercentileNext == Rotate \/ Reverse \/ ComputeStats

PercentileSpec == PercentileInit /\ [][PercentileNext]_vars

\* how many entries of the list are below v, and at most v
CountBelow(s, v) == Cardinality({ k \in DOMAIN s : s[k] < v })

CountUpTo(s, v) == Cardinality({ k \in DOMAIN s : s[k] <= v })

\* the element at 0-based index i of the ascending sort of s, said without
\* sorting: it depends on the multiset of s only
ElementOfAscendingSort(s, i) ==
  CHOOSE v \in { s[k] : k \in DOMAIN s } :
    CountBelow(s, v) <= i /\ i < CountUpTo(s, v)

\* C20: the percentile computation is order-independent and floor-indexed:
\* for every non-empty list of n latencies and every permutation of it, p50,
\* p95 and p99 are the elements at indices floor(n*0.5), floor(n*0.95) and
\* floor(n*0.99) of the ascending sort, these indices are within 0 .. n-1,
\* and min <= p50 <= p95 <= p99 <= max.
C20_PercentilesOrderIndependent ==
  workerStats # NoStats =>
    LET n == Len(latencies)
    IN /\ workerStats.n = n
       /\ \A pct \in {50, 95, 99} : PercentileIndex(n, pct) \in 0 .. n - 1
       /\ workerStats.p50 = ElementOfAscendingSort(latencies, PercentileIndex(n, 50))
       /\ workerStats.p95 = ElementOfAscendingSort(latencies, PercentileIndex(n, 95))
       /\ workerStats.p99 = ElementOfAscendingSort(latencies, PercentileIndex(n, 99))
       /\ workerStats.min = ElementOfAscendingSort(latencies, 0)
       /\ workerStats.max = ElementOfAscendingSort(latencies, n - 1)
       /\ workerStats.min <= workerStats.p50
       /\ workerStats.p50 <= workerStats.p95
       /\ workerStats.p95 <= workerStats.p99
       /\ workerStats.p99 <= workerStats.max
       /\ workerStats = WorkerStatistics(Tail(latencies) \o << Head(latencies) >>)

\* statistics of a list that is not in ascending order, long enough for the
\* p95 index to differ from the last one
C20_Witness ==
  /\ workerStats # NoStats
  /\ latencies # SortAscending(latencies)
  /\ PercentileIndex(Len(latencies), 95) < Len(latencies) - 1
  /\ workerStats.p95 < workerStats.max

\* --------------------------- the latency figures of the final BenchmarkResult
MaxPooledLatencies == 4

\* a / b of two numbers, kept as the exact fraction << a, b >>
Average(lats) == << SumSeq(lats), Len(lats) >>

Times(q, a, b) == << q[1] * a, q[2] * b >>

\* two-stage-benchmark.ts lines 98-100 and 120-126: avgCopyLatencyMs, the
\* mean executionTimeMs of the successful copies, is reported as every figure
TwoStageLatencyFigures(lats) ==
  [mode |-> "two-stage", p50LatencyMs |-> Average(lats),
   p95LatencyMs |-> Average(lats), p99LatencyMs |-> Average(lats)]

\* index.ts lines 90-92 and 105-109: the mean of the workers' avgLatencyMs,
\* for two workers holding the first k and the remaining latencies
StandardLatencyFigures(lats, k) ==
  LET a == Average(SubSeq(lats, 1, k))
      b == Average(SubSeq(lats, k + 1, Len(lats)))
      avg == IF k = Len(lats) THEN a
             ELSE << a[1] * b[2] + b[1] * a[2], 2 * a[2] * b[2] >>
  IN [mode |-> "standard", p50LatencyMs |-> avg, p95LatencyMs |-> avg,
      p99LatencyMs |-> avg]

\* index.ts (simple-streaming-benchmark) lines 234 and 247-249
StreamingLatencyFigures(lats) ==
  [mode |-> "streaming", p50LatencyMs |-> Average(lats),
   p95LatencyMs |-> Times(Average(lats), 3, 2),
   p99LatencyMs |-> Times(Average(lats), 2, 1)]

FiguresStep(figures) ==
  /\ result = NoResult
  /\ result' = figures
  /\ UNCHANGED << config, pc, genUnit, genResult, disk, created, copies, loopI,
                  copyResults, cleanupArg, unlinkFailed, clock, exec, mainPc,
                  latencies, workerStats, locals >>

AggregateTwoStage == FiguresStep(TwoStageLatencyFigures(latencies))

AggregateStandard ==
  \E k \in 1 .. Len(latencies) : FiguresStep(StandardLatencyFigures(latencies, k))

AggregateStreaming == FiguresStep(StreamingLatencyFigures(latencies))

\* the per-operation latencies of a run, pooled over its workers
FiguresInit ==
  /\ latencies \in SeqsUpTo(1 .. MaxLatency, MaxPooledLatencies) \ { << >> }
  /\ result = NoResult
  /\ workerStats = NoStats
  /\ config = [minWorkers |-> 1, connectionsPerWorker |-> 1, dataSizeMB |-> 1]
  /\ pc = "NotCalled"
  /\ genUnit = << >>
  /\ genResult = << >>
  /\ disk = << >>
  /\ created = {}
  /\ copies = << >>
  /\ loopI = 0
  /\ copyResults = << >>
  /\ cleanupArg = << >>
  /\ unlinkFailed = {}
  /\ clock = NoClock
  /\ exec = << >>
  /\ mainPc = "NotMain"
  /\ locals = << >>

FiguresNext == AggregateTwoStage \/ AggregateStandard \/ AggregateStreaming

FiguresSpec == FiguresInit /\ [][FiguresNext]_vars

\* the fraction q is the number v
IsNumber(q, v) == q[1] = v * q[2]

\* C21: in every mode the p50, p95 and p99 latencies of the final
\* BenchmarkResult are the elements at index floor(n*p) of the ascending sort
\* of the pooled per-operation latencies, the convention a worker uses.
C21_ResultPercentilesFloorIndexed ==
  result # NoResult =>
    LET n == Len(latencies)
    IN /\ IsNumber(result.p50LatencyMs,
                   ElementOfAscendingSort(latencies, PercentileIndex(n, 50)))
       /\ IsNumber(result.p95LatencyMs,
                   ElementOfAscendingSort(latencies, PercentileIndex(n, 95)))
       /\ IsNumber(result.p99LatencyMs,
                   ElementOfAscendingSort(latencies, PercentileIndex(n, 99)))

\* ------------------------------------------- a function followed on its own
\* the run, main and the worker statistics are not under way
OnlyLocals ==
  /\ config = [minWorkers |-> 1, connectionsPerWorker |-> 1, dataSizeMB |-> 1]
  /\ pc = "NotCalled"
  /\ genUnit = << >>
  /\ genResult = << >>
  /\ disk = << >>
  /\ created = {}
  /\ copies = << >>
  /\ loopI = 0
  /\ copyResults = << >>
  /\ result = NoResult
  /\ cleanupArg = << >>
  /\ unlinkFailed = {}
  /\ clock = NoClock
  /\ exec = << >>
  /\ mainPc = "NotMain"
  /\ latencies = << >>
  /\ workerStats = NoStats

LocalStep(next) ==
  /\ locals' = next
  /\ UNCHANGED << config, pc, genUnit, genResult, disk, created, copies, loopI,
                  copyResults, result, cleanupArg, unlinkFailed, clock, exec,
                  mainPc, latencies, workerStats >>

\* --------------------------------------------------- generateLargeJsonText
\* sizes in units of a small filler object; the target range 50 .. 100 KB,
\* the size of baseData and the size of one additionalData, scaled down
MinTargetSize == 4
MaxTargetSize == 7
MaxBaseSize == 2
MaxIncrement == 3

\* data-generator.ts lines 163-164 and 192-193: the target is drawn, jsonText
\* is the serialized baseData
FillerInit ==
  /\ \E target \in MinTargetSize .. MaxTargetSize, base \in 1 .. MaxBaseSize :
       locals = [pc |-> "loop", targetSizeBytes |-> target, baseSize |-> base,
                 fillers |-> << >>, currentSize |-> base]
  /\ OnlyLocals

\* lines 196-255: additionalData of size a fits; it is merged under a new key
FillerAppend(a) ==
  /\ locals.pc = "loop"
  /\ locals.currentSize < locals.targetSizeBytes
  /\ locals.currentSize + a <= locals.targetSizeBytes
  /\ LocalStep([locals EXCEPT !.fillers = Append(@, a),
                              !.currentSize = @ + a])

\* lines 251-255: Object.assign under a key extraField_<n> drawn before; the
\* new value replaces the k-th one merged so far
FillerReplace(a, k) ==
  /\ locals.pc = "loop"
  /\ locals.currentSize < locals.targetSizeBytes
  /\ locals.currentSize + a <= locals.targetSizeBytes
  /\ k \in DOMAIN locals.fillers
  /\ LocalStep([locals EXCEPT !.fillers[k] = a,
                              !.currentSize = @ + a - locals.fillers[k]])

\* lines 246-249: currentSize + additionalSize > targetSizeBytes: break
FillerBreak(a) ==
  /\ locals.pc = "loop"
  /\ locals.currentSize < locals.targetSizeBytes
  /\ locals.currentSize + a > locals.targetSizeBytes
  /\ LocalStep([locals EXCEPT !.pc = "returned"])

\* line 196: the loop condition is false; line 257 returns jsonText
FillerDone ==
  /\ locals.pc = "loop"
  /\ locals.currentSize >= locals.targetSizeBytes
  /\ LocalStep([locals EXCEPT !.pc = "returned"])

FillerNext ==
  \/ \E a \in 1 .. MaxIncrement : FillerAppend(a)
  \/ \E a \in 1 .. MaxIncrement, k \in 1 .. MaxTargetSize : FillerReplace(a, k)
  \/ \E a \in 1 .. MaxIncrement : FillerBreak(a)
  \/ FillerDone

FillerSpec == FillerInit /\ [][FillerNext]_vars

\* C22: the serialized size of every generated text payload is at least the
\* lower bound of the target range and at most the target plus one filler
\* increment.
C22_PayloadSizeWithinRange ==
  locals.pc = "returned" =>
    /\ MinTargetSize <= locals.currentSize
    /\ locals.currentSize <= locals.targetSizeBytes + MaxIncrement

\* ------------------------------------------------ the staged-artifact row
MaxFieldLen == 2

\* types.ts lines 319-335, before the join
CSV_HEADERS ==
  << "taskId", "stepIndex", "name", "text", "targetNotFound", "detectedChange",
     "comparedToTextId", "comparedToRecording", "listId", "listItemIndex",
     "listPageNumber", "listPageItemIndex", "attachmentS3Key",
     "attachmentMimeType", "type" >>

\* a field value after String(value): a list of characters, or null
Null == << "null" >>

\* what the reader gives for a row it rejects
Malformed == << "malformed" >>

Chars == { "a", ",", "\"", "\n" }

FieldValues == { Null } \cup SeqsUpTo(Chars, MaxFieldLen)

RECURSIVE Join(_, _)
Join(strs, sep) ==
  IF strs = << >> THEN << >>
  ELSE IF Len(strs) = 1 THEN strs[1]
       ELSE strs[1] \o << sep >> \o Join(Tail(strs), sep)

\* str.replace(/"/g, '""')
RECURSIVE DoubleQuotes(_)
DoubleQuotes(str) ==
  IF str = << >> THEN << >>
  ELSE (IF Head(str) = "\"" THEN << "\"", "\"" >> ELSE << Head(str) >>)
       \o DoubleQuotes(Tail(str))

Includes(str, c) == \E k \in DOMAIN str : str[k] = c

\* types.ts lines 338-345
escapeCsvValue(value) ==
  IF value = Null THEN << >>
  ELSE IF Includes(value, ",") \/ Includes(value, "\"") \/ Includes(value, "\n")
         THEN << "\"" >> \o DoubleQuotes(value) \o << "\"" >>
         ELSE value

\* types.ts lines 347-363: the fields in header order, joined by commas
convertToCsvRow(record) ==
  Join([k \in 1 .. Len(CSV_HEADERS) |-> escapeCsvValue(record[k])], ",")

\* the value of a parsed field as COPY ... WITH (FORMAT csv) reads it: an
\* unquoted empty field is null, a quoted one is its text
FieldRead(cur, wasQuoted) == IF ~wasQuoted /\ cur = << >> THEN Null ELSE cur

\* an RFC 4180 reader of one record: mode is "start" (at the start of a
\* field), "unquoted", "quoted" or "closing" (after a quote inside a quoted
\* field); the result is the list of fields, or Malformed
RECURSIVE ParseCsv(_, _, _, _)
ParseCsv(s, mode, cur, out) ==
  IF s = << >>
    THEN IF mode = "quoted" THEN Malformed
         ELSE Append(out, FieldRead(cur, mode = "closing"))
  ELSE
    LET c == Head(s)
        rest == Tail(s)
    IN CASE mode = "start" ->
              IF c = "\"" THEN ParseCsv(rest, "quoted", << >>, out)
              ELSE IF c = "," THEN ParseCsv(rest, "start", << >>,
                                            Append(out, FieldRead(<< >>, FALSE)))
              ELSE IF c = "\n" THEN Malformed
              ELSE ParseCsv(rest, "unquoted", << c >>, out)
         [] mode = "unquoted" ->
              IF c = "," THEN ParseCsv(rest, "start", << >>,
                                       Append(out, FieldRead(cur, FALSE)))
              ELSE IF c = "\"" \/ c = "\n" THEN Malformed
              ELSE ParseCsv(rest, "unquoted", Append(cur, c), out)
         [] mode = "quoted" ->
              IF c = "\"" THEN ParseCsv(rest, "closing", cur, out)
              ELSE ParseCsv(rest, "quoted", Append(cur, c), out)
         [] mode = "closing" ->
              IF c = "\"" THEN ParseCsv(rest, "quoted", Append(cur, c), out)
              ELSE IF c = "," THEN ParseCsv(rest, "start", << >>,
                                            Append(out, FieldRead(cur, TRUE)))
              ELSE Malformed

ParseCsvRow(row) == ParseCsv(row, "start", << >>, << >>)

\* a record whose k-th field is v and whose other fields are all w
CsvInit ==
  /\ \E k \in DOMAIN CSV_HEADERS, v \in FieldValues, w \in { Null, << "a" >> } :
       locals = [pc |-> "record",
                 record |-> [i \in DOMAIN CSV_HEADERS |-> IF i = k THEN v ELSE w],
                 row |-> << >>, parsed |-> << >>]
  /\ OnlyLocals

\* generateCsvFile line 155: csvRow = convertToCsvRow(record)
WriteCsvRow ==
  /\ locals.pc = "record"
  /\ LocalStep([locals EXCEPT !.pc = "written",
                              !.row = convertToCsvRow(locals.record)])

\* executeCopyCommand lines 215-222: the row is read back by COPY FROM STDIN
ReadCsvRow ==
  /\ locals.pc = "written"
  /\ LocalStep([locals EXCEPT !.pc = "read", !.parsed = ParseCsvRow(locals.row)])

CsvNext == WriteCsvRow \/ ReadCsvRow

CsvSpec == CsvInit /\ [][CsvNext]_vars

\* C23: parsing the row produced by convertToCsvRow with a conformant
\* RFC 4180 parser yields exactly the 15 fields of the record in header
\* order, each equal to the original value, null distinguishable from every
\* non-null value, also for fields holding commas, double quotes and newlines.
C23_RowRoundTrip ==
  locals.pc = "read" =>
    /\ locals.parsed # Malformed
    /\ Len(locals.parsed) = Len(CSV_HEADERS)
    /\ \A k \in DOMAIN CSV_HEADERS : locals.parsed[k] = locals.record[k]

\* ------------------------------------------------ a copy unit that hangs
\* the copy units the batch loop started that have not reported and have
\* not exited abnormally
PendingBatchUnits ==
  { j \in DOMAIN copies :
      copies[j].origin = "batch" /\ copies[j].status = "running" }

LaterBatchStarted(j) ==
  \E k \in DOMAIN copies :
    copies[k].origin = "batch" /\ copies[k].batchStart > copies[j].batchStart

\* C24: staged mode has no timeout or cancellation: as long as a copy worker
\* unit of batch k has not reported an outcome and has not exited abnormally,
\* no loader of a later batch is started, cleanup does not run and
\* runTwoStageBenchmark neither returns nor rejects.
C24_HungUnitStallsTheRun ==
  \A j \in PendingBatchUnits :
    /\ ~LaterBatchStarted(j)
    /\ pc \notin {"Aggregating", "CleaningUp", "Done"}
    /\ pc # "Rejected"

\* ------------------------------------------------- the coordinator's phases
\* the steps of runTwoStageBenchmark's position on a run that is not fatal
PhaseSteps ==
  { << "Idle", "AwaitingGeneration" >>,
    << "AwaitingGeneration", "AwaitingCopies" >>,
    << "AwaitingCopies", "AwaitingCopies" >>,
    << "AwaitingCopies", "Aggregating" >>,
    << "Aggregating", "CleaningUp" >>,
    << "CleaningUp", "Done" >> }

FatalPhases == {"Failed", "Rejected"}

\* C25: on every run that is not fatal the coordinator goes through its
\* phases once each and in this order: spawn the generation units, await all
\* of them, run the copy batches, await the last batch, compute the aggregate
\* metrics, clean up the artifacts, return the result; no phase is skipped,
\* repeated or entered out of order.
C25_PhasesInOrder ==
  [][ /\ pc' \notin FatalPhases => (pc' = pc \/ << pc, pc' >> \in PhaseSteps)
      /\ (pc = "AwaitingCopies" /\ pc' = "AwaitingCopies" /\ loopI' # loopI) =>
           /\ loopI' > loopI
           /\ \E j \in DOMAIN copies' :
                copies'[j].origin = "batch" /\ copies'[j].batchStart = loopI'
      /\ (pc = "AwaitingCopies" /\ pc' = "Aggregating") =>
           (Len(copyResults') >= Len(successfulGenerations) /\ result = NoResult)
      /\ (pc = "Aggregating" /\ pc' = "CleaningUp") =>
           (result' # NoResult /\ cleanupArg = << >>)
      /\ (pc = "CleaningUp" /\ pc' = "Done") => (cleanupArg' = allFilePaths)
      /\ pc \in FatalPhases \cup {"Done"} => pc' = pc ]_vars

\* a run with two batches has returned
C25_Witness ==
  /\ pc = "Done"
  /\ loopI > maxConcurrentCopies
  /\ result # NoResult

\* ------------------------------------------------- the generation units
UnitPairs == { << WorkerIdOf(u), ConnectionIdOf(u) >> : u \in DOMAIN genUnit }

\* C26: stage 1 spawns exactly minWorkers x connectionsPerWorker generation
\* units, exactly one per distinct (workerId, connectionId) pair with
\* 0 <= workerId < minWorkers and 0 <= connectionId < connectionsPerWorker,
\* all of them before any is awaited, and a failed generation unit is never
\* spawned again.
C26_OneGenerationUnitPerPair ==
  /\ [](pc \notin {"Idle", "NotCalled"} =>
          /\ Len(genUnit) = config.minWorkers * config.connectionsPerWorker
          /\ \A u \in DOMAIN genUnit : genUnit[u] # "idle"
          /\ UnitPairs = (0 .. config.minWorkers - 1)
                           \X (0 .. config.connectionsPerWorker - 1)
          /\ Cardinality(UnitPairs) = Len(genUnit))
  /\ [][\A u \in DOMAIN genUnit :
          genUnit'[u] = "spawned" /\ genUnit[u] # "spawned" =>
            /\ pc = "Idle"
            /\ \A v \in DOMAIN genUnit :
                 genUnit[v] = "idle" /\ genUnit'[v] = "spawned"]_vars

\* two workers with two connections each, a unit failed and the run went on
\* to its end
C26_Witness ==
  /\ pc = "Done"
  /\ config.minWorkers = 2
  /\ config.connectionsPerWorker = 2
  /\ \E u \in DOMAIN genUnit : ~genResult[u].success

\* ------------------------------------------------- recordsPerConnection
MaxWideWorkers == 4
MaxWideConnections == 4
MaxWideDataSizeMB == 2

\* configurations with all numeric fields positive
WideConfigs ==
  [minWorkers : 1 .. MaxWideWorkers,
   connectionsPerWorker : 1 .. MaxWideConnections,
   dataSizeMB : 1 .. MaxWideDataSizeMB]

\* two-stage-benchmark.ts lines 11-13 have run; handed lists the record count
\* each runFileGeneration call of lines 22-28 was given so far
RecordCountInit ==
  /\ config \in WideConfigs
  /\ locals = [totalConnections |-> TotalConnections(config),
               recordsPerConnection |-> RecordsPerConnection(config),
               handed |-> << >>]
  /\ pc = "NotCalled"
  /\ genUnit = << >>
  /\ genResult = << >>
  /\ disk = << >>
  /\ created = {}
  /\ copies = << >>
  /\ loopI = 0
  /\ copyResults = << >>
  /\ result = NoResult
  /\ cleanupArg = << >>
  /\ unlinkFailed = {}
  /\ clock = NoClock
  /\ exec = << >>
  /\ mainPc = "NotMain"
  /\ latencies = << >>
  /\ workerStats = NoStats

\* lines 24-26: runFileGeneration(config, workerId, connectionId,
\* recordsPerConnection)
HandRecordCount ==
  /\ Len(locals.handed) < locals.totalConnections
  /\ LocalStep([locals EXCEPT !.handed = Append(@, locals.recordsPerConnection)])

RecordCountNext == HandRecordCount

RecordCountSpec == RecordCountInit /\ [][RecordCountNext]_vars

TargetKB == config.dataSizeMB * BytesPerKB

\* C27: recordsPerConnection = floor(dataSizeMB*1024*1024 /
\* (totalConnections * 75*1024)) with totalConnections = minWorkers x
\* connectionsPerWorker, so that totalConnections x recordsPerConnection x
\* 75 KB never exceeds the target volume and falls short of it by less than
\* totalConnections x 75 KB; every generation unit receives this same record
\* count, which is at least 1 for every valid configuration.
C27_RecordsPerConnection ==
  LET tc == config.minWorkers * config.connectionsPerWorker
      rpc == locals.recordsPerConnection
  IN /\ locals.totalConnections = tc
     /\ tc * rpc * AvgRecordKB <= TargetKB
     /\ TargetKB - tc * rpc * AvgRecordKB < tc * AvgRecordKB
     /\ \A k \in DOMAIN locals.handed : locals.handed[k] = rpc
     /\ rpc >= 1

\* ------------------------------------------------------ the stage-2 batches
\* the paths of the successful generations, in generation-outcome order
SuccessPaths ==
  [k \in 1 .. Len(successfulGenerations) |-> successfulGenerations[k].filePath]

BatchSize == Min(CopyCeiling, Len(SuccessPaths))

\* the position of batch unit j inside its batch, from 1
RankInBatch(j) ==
  Cardinality({ q \in BatchUnits(copies[j].batchStart) : q <= j })

BatchStarts ==
  { copies[j].batchStart : j \in { q \in DOMAIN copies : copies[q].origin = "batch" } }

\* C28: the stage-2 batches partition the successful generations: with n
\* successes and m = min(ceiling, n), the batches are consecutive slices in
\* generation-outcome order, every batch but the last has exactly m artifacts,
\* there are ceil(n/m) batches, each successful artifact belongs to exactly
\* one batch fixed at dispatch time, and after stage 2 copyResults holds
\* exactly one outcome per successful generation in that order.
C28_BatchesPartitionSuccesses ==
  LET n == Len(SuccessPaths)
      m == BatchSize
  IN /\ \A j \in DOMAIN copies :
          copies[j].origin = "batch" =>
            /\ copies[j].batchStart % m = 0
            /\ RankInBatch(j) <= m
            /\ copies[j].batchStart + RankInBatch(j) <= n
            /\ copies[j].filePath =
                 SuccessPaths[copies[j].batchStart + RankInBatch(j)]
     /\ \A i \in BatchStarts :
          /\ i + m < n => Cardinality(BatchUnits(i)) = m
          /\ Cardinality(BatchUnits(i)) = Min(m, n - i)
     /\ StageTwoOver =>
          /\ Cardinality(BatchStarts) = (n + m - 1) \div m
          /\ \A k \in 1 .. n :
               Cardinality({ j \in DOMAIN copies :
                               /\ copies[j].origin = "batch"
                               /\ copies[j].filePath = SuccessPaths[k] }) = 1
          /\ Len(copyResults) = n
          /\ \A k \in 1 .. n : copyResults[k].filePath = SuccessPaths[k]

\* three successes in batches of two: the last batch is the smaller one
C28_Witness ==
  /\ StageTwoOver
  /\ Len(SuccessPaths) = 3
  /\ BatchSize = 2
  /\ Cardinality(BatchStarts) = 2

\* ------------------------------------------ the non-staged worker's loop
MaxAttempts == 4
MaxBatchSize == 2

\* types.ts lines 187-197: the worker before its warmup loop; attempts counts
\* the calls of benchmarkTable.insert
WorkerLoopInit ==
  /\ \E size \in 1 .. MaxBatchSize :
       locals = [pc |-> "warmup", batchSize |-> size, attempts |-> 0,
                 measurements |-> << >>, errors |-> << >>,
                 recordsInserted |-> 0, benchmarkStart |-> 0,
                 result |-> NoStats]
  /\ OnlyLocals

InLoop == locals.pc \in {"warmup", "test"} /\ locals.attempts < MaxAttempts

\* lines 201-216 and 235-250: the insert resolved
InsertSucceeds ==
  /\ InLoop
  /\ LocalStep([locals EXCEPT
       !.attempts = @ + 1,
       !.measurements = Append(@, [success |-> TRUE, error |-> ""]),
       !.recordsInserted = @ + locals.batchSize])

MeasurementsAfterFailureDropped(ms, message) == ms

\* lines 217-228 and 251-262: measurements.push({..., success: false, error})
MeasurementsAfterFailure(ms, message) ==
  Append(ms, [success |-> FALSE, error |-> message])

\* lines 217-231 and 251-266: the insert rejected; the catch is inside the loop
InsertFails ==
  /\ InLoop
  /\ LocalStep([locals EXCEPT
       !.attempts = @ + 1,
       !.measurements = MeasurementsAfterFailure(@, "insert failed"),
       !.errors = Append(@, "insert failed")])

\* line 200: Date.now() - warmupStart reached warmupDuration; line 235:
\* benchmarkStart, kept as the number of attempts made before it
EndWarmup ==
  /\ locals.pc = "warmup"
  /\ LocalStep([locals EXCEPT !.pc = "test",
                              !.benchmarkStart = locals.attempts])

\* lines 275-293 of the result: the counts and the capped errors list
WorkerCounts(l) ==
  [recordsInserted |-> l.recordsInserted,
   successCount |-> Len(SelectSeq(l.measurements, LAMBDA m : m.success)),
   errorCount |-> Len(SelectSeq(l.measurements, LAMBDA m : ~m.success)),
   errors |-> Take(l.errors, ErrorsLimit)]

\* line 234: Date.now() - benchmarkStart reached testDuration; lines 270-297
EndTest ==
  /\ locals.pc = "test"
  /\ LocalStep([locals EXCEPT !.pc = "exited", !.result = WorkerCounts(locals)])

WorkerLoopNext == InsertSucceeds \/ InsertFails \/ EndWarmup \/ EndTest

WorkerLoopSpec == WorkerLoopInit /\ [][WorkerLoopNext]_vars

\* C29: in the non-staged worker loop every batch insert attempt, in warmup
\* and in the test phase, produces exactly one LatencyMeasurement; a failed
\* insert does not end the loop; on exit successCount + errorCount equals the
\* number of attempts, recordsInserted equals batchSize times the number of
\* successful attempts, and the worker's errors list holds at most the
\* limit's number of messages.
C29_OneMeasurementPerAttempt ==
  /\ [](/\ Len(locals.measurements) = locals.attempts
        /\ locals.pc = "exited" =>
             /\ locals.result.successCount + locals.result.errorCount
                  = locals.attempts
             /\ locals.result.recordsInserted
                  = locals.batchSize * locals.result.successCount
             /\ locals.result.successCount + Len(locals.errors)
                  = locals.attempts
             /\ Len(locals.result.errors) <= ErrorsLimit)
  /\ [][locals.attempts' # locals.attempts =>
          /\ locals.attempts' = locals.attempts + 1
          /\ Len(locals.measurements') = Len(locals.measurements) + 1
          /\ locals.pc' = locals.pc]_vars

\* the worker left its loops after more failed inserts than the errors list
\* keeps, the first and the last attempt among them, and a successful one
C29_Witness ==
  /\ locals.pc = "exited"
  /\ locals.result.errorCount > ErrorsLimit
  /\ locals.result.successCount > 0
  /\ ~locals.measurements[1].success
  /\ ~locals.measurements[locals.attempts].success

\* --------------------------------- the run whose worker units all report
MaxLiveUnits == 4

LiveInit ==
  /\ config \in { cfg \in Configs : TotalConnections(cfg) <= MaxLiveUnits }
  /\ pc = "Idle"
  /\ genUnit = [u \in 1 .. TotalConnections(config) |-> "idle"]
  /\ genResult = [u \in 1 .. TotalConnections(config) |-> NoGenResult]
  /\ disk = [p \in 1 .. TotalConnections(config) |-> "none"]
  /\ created = {}
  /\ copies = << >>
  /\ loopI = 0
  /\ copyResults = << >>
  /\ result = NoResult
  /\ cleanupArg = << >>
  /\ unlinkFailed = {}
  /\ clock = NoClock
  /\ exec = << >>
  /\ mainPc = "NotMain"
  /\ latencies = << >>
  /\ workerStats = NoStats
  /\ locals = << >>

\* the steps of a run in which no worker thread emits error or exits before
\* posting: every unit reports an outcome, success or failure
LiveNext ==
  \/ SpawnGenerators
  \/ \E u \in Units : GenOpen(u)
  \/ \E u \in Units : GenOpenFail(u)
  \/ \E u \in Units : GenFinish(u)
  \/ \E u \in Units : GenStreamError(u)
  \/ GenerationBarrier
  \/ \E j \in DOMAIN copies : CopySucceed(j)
  \/ \E j \in DOMAIN copies : CopyFail(j)
  \/ BatchBarrier
  \/ Aggregate
  \/ Cleanup

\* a worker thread or a continuation of the coordinator that can run does run
LiveSpec == LiveInit /\ [][LiveNext]_vars /\ WF_vars(LiveNext)

OneGenerationSucceeded == \E u \in DOMAIN genResult : genResult[u].success

\* C30: if every generation and copy worker unit eventually reports an
\* outcome and at least one generation succeeds, runTwoStageBenchmark
\* eventually reaches Done and returns a BenchmarkResult, whatever the
\* interleaving of worker completions and whatever mix of successes and
\* failures they report.
C30_RunReachesDone ==
  OneGenerationSucceeded ~> (pc = "Done" /\ result # NoResult)

\* a run that returned after failed generations and failed loads
C30_Witness ==
  /\ pc = "Done"
  /\ result # NoResult
  /\ \E u \in DOMAIN genResult : ~genResult[u].success
  /\ \E j \in DOMAIN copyResults : ~copyResults[j].success
  /\ \E j \in DOMAIN copyResults : copyResults[j].success

\* ------------------------------------------------ rows in the target table
\* the rows the first n copy worker units of the run have committed
RECURSIVE RowsInserted(_)
RowsInserted(n) ==
  IF n = 0 THEN 0
  ELSE RowsInserted(n - 1)
       + (IF copies[n].status = "resolved" /\ copies[n].result.success
            THEN copies[n].result.recordsInserted ELSE 0)

\* C31: the totalRecords reported by runTwoStageBenchmark equals the number
\* of rows the run actually inserted into the target table: every row
\* streamed into the database by a worker unit started during the run is
\* counted exactly once in the result.
C31_TotalRecordsAreRowsInserted ==
  (pc = "Done" /\ InFlightCopies = 0) =>
    result.totalRecords = RowsInserted(Len(copies))

\* ------------------------------------- runWorker and its worker thread
\* (benchmark-worker.ts lines 158-181 and 304-312, index.ts lines 55-66)
MaxRunWorkers == 2

RunWorkers == 1 .. Len(locals.workers)

\* lines 164-166: new Worker(__filename, ...), nothing heard from it yet
SpawnedWorker ==
  [thread |-> "running", events |-> << >>, promise |-> "pending"]

RunWorkerInit ==
  /\ \E n \in 1 .. MaxRunWorkers :
       locals = [workers |-> [w \in 1 .. n |-> SpawnedWorker],
                 all |-> "pending"]
  /\ OnlyLocals

\* the worker thread w moves to the state t and emits the events es
WorkerEmits(w, t, es) ==
  LocalStep([locals EXCEPT !.workers[w].thread = t,
                           !.workers[w].events = @ \o es])

\* lines 305-308: runBenchmark resolved, the result is posted
WorkerReturns(w) ==
  /\ locals.workers[w].thread = "running"
  /\ WorkerEmits(w, "posted", << "message result" >>)

\* lines 298-301 and 309-311: runBenchmark threw, the catch posts
\* { type: "error", error } and the thread goes on to end normally
WorkerThrows(w) ==
  /\ locals.workers[w].thread = "running"
  /\ WorkerEmits(w, "posted", << "message error" >>)

\* the thread has nothing left to run and ends with exit code 0
WorkerExits(w) ==
  /\ locals.workers[w].thread = "posted"
  /\ WorkerEmits(w, "exited", << "exit 0" >>)

\* an exception no handler of the thread catches: the Worker emits 'error'
\* and then 'exit' with code 1
WorkerCrashes(w) ==
  /\ locals.workers[w].thread = "running"
  /\ WorkerEmits(w, "exited", << "error", "exit 1" >>)

\* lines 168-179: what the three listeners do to the promise
PromiseAfter(promise, event) ==
  IF promise # "pending" THEN promise
  ELSE CASE event = "message result" -> "resolved"
         [] event = "message error"  -> "pending"
         [] event = "error"          -> "rejected"
         [] event = "exit 0"         -> "pending"
         [] event = "exit 1"         -> "rejected"

\* the main thread runs the listener of the oldest event of worker w
Listen(w) ==
  /\ locals.workers[w].events # << >>
  /\ LocalStep([locals EXCEPT
       !.workers[w].promise = PromiseAfter(@, Head(locals.workers[w].events)),
       !.workers[w].events = Tail(@)])

\* index.ts line 66: await Promise.all(workerPromises)
AwaitWorkerResults ==
  /\ locals.all = "pending"
  /\ \/ /\ \A w \in RunWorkers : locals.workers[w].promise = "resolved"
        /\ LocalStep([locals EXCEPT !.all = "resolved"])
     \/ /\ \E w \in RunWorkers : locals.workers[w].promise = "rejected"
        /\ LocalStep([locals EXCEPT !.all = "rejected"])

RunWorkerNext ==
  \/ \E w \in RunWorkers : WorkerReturns(w)
  \/ \E w \in RunWorkers : WorkerThrows(w)
  \/ \E w \in RunWorkers : WorkerExits(w)
  \/ \E w \in RunWorkers : WorkerCrashes(w)
  \/ \E w \in RunWorkers : Listen(w)
  \/ AwaitWorkerResults

RunWorkerSpec == RunWorkerInit /\ [][RunWorkerNext]_vars

\* C32: the promise returned by runWorker settles whenever its worker thread
\* terminates: once the thread has ended and the main thread has handled
\* everything the thread emitted, the promise is resolved or rejected, also
\* when the benchmark function threw.
C32_PromiseSettlesWhenThreadEnds ==
  \A w \in RunWorkers :
    (locals.workers[w].thread = "exited" /\ locals.workers[w].events = << >>)
      => locals.workers[w].promise # "pending"

\* ------------------------------------------------- artifacts of an aborted run
\* C33: when runTwoStageBenchmark aborts, because every generation failed or
\* because a worker promise rejected at a barrier, every artifact file the
\* run created is deleted before the error reaches the caller: no artifact
\* outlives a failed run.
C33_NoArtifactOutlivesAbort ==
  (pc \in FatalPhases /\ cleanupArg = << >>) =>
    \A p \in DOMAIN disk : disk[p] = "none"

\* ------------------------------------------------ the streaming mode
\* (simple-streaming-benchmark.ts, index.ts lines 186-351)
MaxStreamWorkers == 4
MaxStreamConnectionsPerWorker == 4
MaxStreamDataSizeMB == 4
\* runs whose workers have records to insert are explored up to this many
\* connections
MaxBusyConnections == 2
\* the worker keeps errors.slice(0, 5); scaled to the batches a worker makes
StreamErrorsLimit == 1
\* line 192: const batchSize = 50
StreamBatchSize == 50

\* line 195: Math.floor((dataSizeMB * 1024 * 1024) / (75 * 1024))
StreamTotalRecords(cfg) ==
  (cfg.dataSizeMB * BytesPerKB * BytesPerKB) \div (AvgRecordKB * BytesPerKB)

\* line 196: Math.floor(totalRecords / totalConnections)
StreamRecordsPerConnection(cfg) ==
  StreamTotalRecords(cfg) \div TotalConnections(cfg)

StreamConfigs ==
  { cfg \in [minWorkers : 1 .. MaxStreamWorkers,
             connectionsPerWorker : 1 .. MaxStreamConnectionsPerWorker,
             dataSizeMB : 1 .. MaxStreamDataSizeMB] :
      \/ TotalConnections(cfg) <= MaxBusyConnections
      \/ StreamRecordsPerConnection(cfg) = 0 }

NoStreamWorkerResult ==
  [successfulInserts |-> 0, failedInserts |-> 0, latencies |-> << >>,
   errors |-> << >>]

NoStreamResult ==
  [totalRecords |-> 0, successCount |-> 0, errorCount |-> 0,
   successRate |-> << 0, 0 >>, errors |-> << >>, allLatencies |-> << >>]

\* lines 290-293: the worker's locals before its loop; attempts is the
\* history of its batch inserts (TRUE for an insert that resolved)
NewStreamWorker ==
  [state |-> "created", i |-> 0, successfulInserts |-> 0,
   failedInserts |-> 0, latencies |-> << >>, errors |-> << >>,
   attempts |-> << >>, result |-> NoStreamWorkerResult]

\* lines 204-207 and 212: the connections exist, SELECT 1 is awaited on each
StreamingInit ==
  /\ \E cfg \in StreamConfigs :
       locals = [pc |-> "testing", config |-> cfg,
                 totalConnections |-> TotalConnections(cfg),
                 recordsPerConnection |-> StreamRecordsPerConnection(cfg),
                 workers |-> [w \in 1 .. TotalConnections(cfg) |->
                                NewStreamWorker],
                 destroyed |-> {},
                 result |-> NoStreamResult]
  /\ OnlyLocals

StreamWorkers == 1 .. locals.totalConnections

\* lines 343-350: the WorkerResult the worker returns
StreamWorkerResult(w) ==
  [successfulInserts |-> w.successfulInserts,
   failedInserts |-> w.failedInserts,
   latencies |-> w.latencies,
   errors |-> Take(w.errors, StreamErrorsLimit)]

\* line 299: the loop test i < totalRecords; the worker either awaits the
\* insert of its next batch or returns
AtLoopTest(w, quota) ==
  IF w.i < quota
    THEN [w EXCEPT !.state = "inserting"]
    ELSE [w EXCEPT !.state = "returned", !.result = StreamWorkerResult(w)]

\* line 300: Math.min(batchSize, totalRecords - i)
currentBatchSize(w, quota) == Min(StreamBatchSize, quota - w.i)

IndexAfterFailureEndsLoop(i, quota) == quota

\* line 299: i += batchSize, also after the catch of lines 325-329
IndexAfterFailure(i, quota) == i + StreamBatchSize

\* lines 311-315
AfterInsertResolved(w, quota, latency) ==
  AtLoopTest([w EXCEPT
                !.successfulInserts = @ + currentBatchSize(w, quota),
                !.latencies = Append(@, latency),
                !.attempts = Append(@, TRUE),
                !.i = @ + StreamBatchSize], quota)

\* lines 325-329: Worker <id> Batch <i>-<i + currentBatchSize>: <message>
AfterInsertRejected(w, id, quota) ==
  AtLoopTest([w EXCEPT
                !.failedInserts = @ + currentBatchSize(w, quota),
                !.errors = Append(@, << id, w.i,
                                        w.i + currentBatchSize(w, quota) >>),
                !.attempts = Append(@, FALSE),
                !.i = IndexAfterFailure(@, quota)], quota)

\* lines 275-278: finally, db.destroy() on every connection
DestroyAll == 1 .. locals.totalConnections

\* line 212 rejected: one SELECT 1 failed, the finally block runs and the
\* error propagates
ConnectionTestFails ==
  /\ locals.pc = "testing"
  /\ LocalStep([locals EXCEPT !.pc = "threw", !.destroyed = DestroyAll])

\* lines 212-218: every SELECT 1 resolved; each runStreamingWorker call runs
\* up to its first await
ConnectionTestPasses ==
  /\ locals.pc = "testing"
  /\ LocalStep([locals EXCEPT
       !.pc = "running",
       !.workers = [w \in StreamWorkers |->
                      AtLoopTest(locals.workers[w],
                                 locals.recordsPerConnection)]])

BatchInserted(w) ==
  /\ locals.pc = "running"
  /\ locals.workers[w].state = "inserting"
  /\ \E latency \in 1 .. MaxLatency :
       LocalStep([locals EXCEPT
         !.workers[w] = AfterInsertResolved(@, locals.recordsPerConnection,
                                            latency)])

BatchFailed(w) ==
  /\ locals.pc = "running"
  /\ locals.workers[w].state = "inserting"
  /\ LocalStep([locals EXCEPT
       !.workers[w] = AfterInsertRejected(@, w - 1,
                                          locals.recordsPerConnection)])

\* reduce and flatMap over the worker results, in connection order
RECURSIVE StreamSum(_, _)
StreamSum(rs, field) ==
  IF rs = << >> THEN 0 ELSE rs[1][field] + StreamSum(Tail(rs), field)

RECURSIVE StreamFlat(_, _)
StreamFlat(rs, field) ==
  IF rs = << >> THEN << >> ELSE rs[1][field] \o StreamFlat(Tail(rs), field)

\* line 234: the mean batch latency, 0 for an empty pool
StreamAvgLatency(lats) == IF lats = << >> THEN << 0, 1 >> ELSE Average(lats)

\* lines 251-252: Math.min(...allLatencies) and Math.max(...allLatencies),
\* 0 for an empty pool
StreamMinLatency(lats) ==
  IF lats = << >> THEN 0
  ELSE CHOOSE v \in Range(lats) : \A u \in Range(lats) : v <= u

StreamMaxLatency(lats) ==
  IF lats = << >> THEN 0
  ELSE CHOOSE v \in Range(lats) : \A u \in Range(lats) : u <= v

\* lines 223-257
StreamingResult(workerResults) ==
  LET successfulInserts == StreamSum(workerResults, "successfulInserts")
      failedInserts == StreamSum(workerResults, "failedInserts")
      allLatencies == StreamFlat(workerResults, "latencies")
      avgLatencyMs == StreamAvgLatency(allLatencies)
  IN  [avgLatencyMs |-> avgLatencyMs,
       p50LatencyMs |-> avgLatencyMs,
       p95LatencyMs |-> Times(avgLatencyMs, 3, 2),
       p99LatencyMs |-> Times(avgLatencyMs, 2, 1),
       minLatencyMs |-> StreamMinLatency(allLatencies),
       maxLatencyMs |-> StreamMaxLatency(allLatencies),
       totalRecords |-> successfulInserts,
       successCount |-> successfulInserts,
       errorCount |-> failedInserts,
       successRate |-> << successfulInserts,
                          successfulInserts + failedInserts >>,
       errors |-> Take(StreamFlat(workerResults, "errors"), ErrorsLimit),
       allLatencies |-> StreamFlat(workerResults, "latencies")]

\* lines 220-278: Promise.all(workerPromises) resolved, the result is built
\* and returned through the finally block
StreamingReturns ==
  /\ locals.pc = "running"
  /\ \A w \in StreamWorkers : locals.workers[w].state = "returned"
  /\ LocalStep([locals EXCEPT
       !.pc = "returned",
       !.result = StreamingResult([w \in StreamWorkers |->
                                     locals.workers[w].result]),
       !.destroyed = DestroyAll])

StreamingNext ==
  \/ ConnectionTestFails
  \/ ConnectionTestPasses
  \/ \E w \in StreamWorkers : BatchInserted(w)
  \/ \E w \in StreamWorkers : BatchFailed(w)
  \/ StreamingReturns

StreamingSpec == StreamingInit /\ [][StreamingNext]_vars

\* C34: whenever a BenchmarkResult is returned, by the two-stage, the
\* non-staged or the streaming mode, successCount + errorCount >= 1, so that
\* successRate is a defined value between 0 and 1; stated here for the
\* streaming mode.
C34_SuccessRateDefined ==
  locals.pc = "returned" =>
    /\ locals.result.successCount + locals.result.errorCount >= 1
    /\ locals.result.successRate[2] >= 1
    /\ locals.result.successRate[1] <= locals.result.successRate[2]

\* the number of batches a quota is cut into, and the records of the
\* successful ones among the attempts made
BatchesOfQuota(quota) == (quota + StreamBatchSize - 1) \div StreamBatchSize

RECURSIVE RecordsOfSuccessfulBatches(_, _, _)
RecordsOfSuccessfulBatches(attempts, k, quota) ==
  IF k = 0 THEN 0
  ELSE RecordsOfSuccessfulBatches(attempts, k - 1, quota)
       + (IF attempts[k]
            THEN Min(StreamBatchSize, quota - (k - 1) * StreamBatchSize)
            ELSE 0)

\* C35: in runStreamingWorker every record of the worker's quota is counted
\* exactly once: a failed batch does not stop the later batches, and when the
\* worker returns successfulInserts + failedInserts equals its quota, its
\* latencies list has one entry per successful batch and its errors list
\* holds at most the limit's number of messages; runSimpleStreamingBenchmark
\* has destroyed every connection it created on every exit path.
C35_QuotaCountedOnce ==
  /\ \A w \in StreamWorkers :
       locals.workers[w].state = "returned" =>
         LET worker == locals.workers[w]
             quota == locals.recordsPerConnection
         IN  /\ Len(worker.attempts) = BatchesOfQuota(quota)
             /\ worker.result.successfulInserts + worker.result.failedInserts
                  = quota
             /\ worker.result.successfulInserts
                  = RecordsOfSuccessfulBatches(worker.attempts,
                                               Len(worker.attempts), quota)
             /\ Len(worker.result.latencies)
                  = Len(SelectSeq(worker.attempts, LAMBDA ok : ok))
             /\ Len(worker.result.errors) <= StreamErrorsLimit
  /\ locals.pc \in {"returned", "threw"} =>
       locals.destroyed = 1 .. locals.totalConnections

\* a worker returned after a failed first batch and a successful second one
\* and the run has returned its result
C35_Witness ==
  /\ locals.pc = "returned"
  /\ \E w \in StreamWorkers :
       /\ locals.workers[w].state = "returned"
       /\ locals.workers[w].attempts = << FALSE, TRUE >>
       /\ locals.workers[w].result.failedInserts = StreamBatchSize

\* q <= r for two quotients with positive denominators
AtMost(q, r) == q[1] * r[2] <= r[1] * q[2]

\* C36: the latency figures of the BenchmarkResult returned by
\* runSimpleStreamingBenchmark are ordered, minLatencyMs <= p50LatencyMs <=
\* p95LatencyMs <= p99LatencyMs <= maxLatencyMs, for every non-empty pooled
\* set of batch latencies.
C36_StreamingFiguresOrdered ==
  (locals.pc = "returned" /\ locals.result.allLatencies # << >>) =>
    LET r == locals.result
    IN  /\ AtMost(<< r.minLatencyMs, 1 >>, r.p50LatencyMs)
        /\ AtMost(r.p50LatencyMs, r.p95LatencyMs)
        /\ AtMost(r.p95LatencyMs, r.p99LatencyMs)
        /\ AtMost(r.p99LatencyMs, << r.maxLatencyMs, 1 >>)

\* ------------------------------------------- the interval of the throughput
\* the successful inserts of the timed test phase: the measurements taken
\* after benchmarkStart
TestPhaseSuccesses(l) ==
  Len(SelectSeq(SubSeq(l.measurements, l.benchmarkStart + 1,
                       Len(l.measurements)),
                LAMBDA m : m.success))

\* C37: in non-staged mode the throughput numerator and denominator cover
\* the same interval: the records a worker reports, which index.ts divides by
\* testDuration, count only the batches inserted during the timed test phase;
\* batches inserted during warmup are excluded.
C37_ThroughputCountsTestPhaseOnly ==
  locals.pc = "exited" =>
    locals.result.recordsInserted
      = locals.batchSize * TestPhaseSuccesses(locals)

====
